---- MODULE Spec2Model ----
(***************************************************************************)
(* Model of grayskull.h: connected-component labelling (gs_blobs), blob    *)
(* corners (gs_blob_corners), Moore-neighbour boundary tracing             *)
(* (gs_trace_contour), FAST corners (gs_fast) and descriptor matching      *)
(* (gs_hamming_distance, gs_match_orb).                                    *)
(*                                                                         *)
(* Arrays are functions over the C index range (0-based), pixels are       *)
(* addressed as y * w + x exactly as in the source.  Every loop of the     *)
(* source is one action per iteration; the loop bodies are operators on a  *)
(* record of the function's locals, so that a whole call can also be       *)
(* evaluated as a pure function (GsBlobs) on another image.                *)
(***************************************************************************)
EXTENDS Integers, Naturals, Sequences, FiniteSets, TLC

\* ------------------------------------------------------------------ bounds
MaxW == 4
MaxH == 3
MaxArea == 12
MaxTraceArea == 9
MaxLiveArea == 6
MaxBlobs == 6
MaxFastW == 8
MaxFastH == 7
MaxFastArea == 56
MaxKps == 2
MaxN1 == 2
MaxN2 == 3
MaxMatches == 2
\* What the caller's buffers and the stack hold before a call clears them.
Stale == 7
\* Pixels of the row scanned for the label counter.
MaxRow == 6
\* Largest source and destination sizes of the resampling functions.
MaxSrcW == 3
MaxSrcH == 2
MaxDstW == 3
MaxDstH == 3
\* Largest keypoint capacity and level count asked of the pyramid extraction.
MaxPyramidKps == 4
MaxLevelsArg == 5

\* ------------------------------------------------------- program constants
\* UINT_MAX is 2^32 - 1 in the source; the checker's integers end at 2^31 - 1, so
\* the largest representable value stands for it.  It is only stored as the
\* "empty" box origin of unallocated blob slots and is larger than any coordinate.
UINT_MAX == 2147483647
LabelMod == 65536
FgLevel == 128


\* The blob capacities tried: one label, too few labels for a busy image, and
\* enough for every image.
Capacities == {1, 3, MaxBlobs}

\* Grey-level pairs <<lo, hi>> of the two-level input images: black and white,
\* and the two levels on either side of each function's foreground test.
BlobLevels == {<<0, 255>>, <<127, 128>>}
TraceLevels == {<<0, 255>>, <<128, 129>>}

VARIABLES
  w, h, img,            \* struct gs_image: width, height, data
  nblobs,               \* gs_blobs argument
  labels,               \* gs_label *labels (caller buffer, w*h cells)
  blobs,                \* struct gs_blob *blobs (caller buffer, nblobs cells)
  parents, cx, cy,      \* gs_blobs locals: union-find table, centroid sums
  next,                 \* gs_blobs local: next provisional label
  i,                    \* loop index of the running loop
  m,                    \* gs_blobs local: number of compacted blobs
  ret,                  \* value returned by gs_blobs, gs_fast, gs_match_orb
  dropped,              \* pixels skipped at "out of labels"
  visited,              \* gs_trace_contour: visited image data
  c,                    \* struct gs_contour
  p, dir, seenstart,    \* gs_trace_contour locals
  blob, corners,        \* gs_blob_corners: the blob *b passed and the output c[4]
  scoremap,             \* gs_fast: score map data (caller buffer, w*h cells)
  kps, nkps, threshold, \* gs_fast: keypoint buffer, its capacity, threshold
  n_out,                \* gs_fast, gs_match_orb local n: entries written so far
  kps1, kps2,           \* gs_match_orb: the two keypoint sets (n1, n2 entries)
  matches, max_matches, \* gs_match_orb: match buffer and its capacity
  max_distance,         \* gs_match_orb argument
  dist,                 \* value returned by gs_hamming_distance
  dst,                  \* gs_resize, gs_perspective_correct: destination image
  pyramid, n_levels,    \* extract_pyramid_orb_nm: pyramid[4] and the level count
  level, total_kps,     \* extract_pyramid_orb_nm locals
  level_nkps,           \* extract_pyramid_orb_nm: level_nkps of each iteration
  heap_ptr, images,     \* WASM target: bump allocator offset, image slots
  pc                    \* position in the running function

vars == <<w, h, img, nblobs, labels, blobs, parents, cx, cy, next, i, m, ret,
          dropped, visited, c, p, dir, seenstart, blob, corners, scoremap, kps,
          nkps, threshold, n_out, kps1, kps2, matches, max_matches, max_distance, dist,
          dst, pyramid, n_levels, level, total_kps, level_nkps, heap_ptr, images, pc>>

blobVars == <<nblobs, labels, blobs, parents, cx, cy, next, m, ret, dropped>>
traceVars == <<visited, c, p, dir, seenstart>>
cornerVars == <<blob, corners>>
fastVars == <<scoremap, kps, nkps, threshold, n_out>>
matchVars == <<kps1, kps2, matches, max_matches, max_distance, dist>>
pyramidVars == <<pyramid, n_levels, level, total_kps, level_nkps>>
wasmVars == <<heap_ptr, images>>
extVars == <<dst, pyramidVars, wasmVars>>

\* ------------------------------------------------------------------ helpers
GS_MIN(a, b) == IF a < b THEN a ELSE b
GS_MAX(a, b) == IF a > b THEN a ELSE b

gs_rect(x, y, rw, rh) == [x |-> x, y |-> y, w |-> rw, h |-> rh]
gs_point(x, y) == [x |-> x, y |-> y]
gs_blob(label, area, box, centroid) ==
  [label |-> label, area |-> area, box |-> box, centroid |-> centroid]

\* The two-level images of a given size: pixels of the mask hold hi, the others lo.
Images(ww, hh, levels) ==
  { [pos \in 0..(ww * hh - 1) |-> IF pos \in mask THEN lv[2] ELSE lv[1]] :
      mask \in SUBSET (0..(ww * hh - 1)), lv \in levels }

\* ----------------------------------------------------------------- gs_blobs
\* A find that looks one link up only.
gs_root_OneHop(x, par) == [root |-> par[x], parents |-> par]

\* gs_root: find with path halving; returns the root and the updated table.
RECURSIVE gs_root(_, _)
gs_root(x, par) ==
  IF par[x] = x THEN [root |-> x, parents |-> par]
  ELSE LET g == par[par[x]] IN gs_root(g, [par EXCEPT ![x] = g])

\* A background test that also skips intensity 128.
IsBackground_Strict(v) == v <= FgLevel

\* The test that skips background pixels.
IsBackground(v) == v < FgLevel

\* Locals and buffers after the three initialisation loops; cx and cy are
\* declared without initialiser and keep whatever the stack held.
BlobsClear(s, ww, hh, nb) ==
  [labels  |-> [pos \in 0..(ww * hh - 1) |-> 0],
   blobs   |-> [k \in 0..(nb - 1) |->
                  gs_blob(0, 0, gs_rect(UINT_MAX, UINT_MAX, 0, 0), gs_point(0, 0))],
   parents |-> [k \in 0..nb |-> k % LabelMod],
   cx      |-> s.cx,
   cy      |-> s.cy,
   next    |-> 1,
   m       |-> 0,
   dropped |-> 0]

\* Smallest non-zero label of left and top, 0 if there is none.
PickLabel(left, top) ==
  IF left # 0 /\ top # 0 THEN GS_MIN(left, top)
  ELSE IF left # 0 THEN left
  ELSE IF top # 0 THEN top ELSE 0

\* Union that records no equivalence.
Union_None(left, top, par) == par

\* A union that attaches the smaller root under the larger.
Union_SmallerUnderLarger(left, top, par) ==
  IF left # 0 /\ top # 0 /\ left # top
  THEN LET r1 == gs_root(left, par)
           r2 == gs_root(top, r1.parents)
       IN IF r1.root # r2.root
          THEN [r2.parents EXCEPT ![GS_MIN(r1.root, r2.root)] = GS_MAX(r1.root, r2.root)]
          ELSE r2.parents
  ELSE par

\* Union of the classes of left and top: larger root under the smaller.
Union(left, top, par) ==
  IF left # 0 /\ top # 0 /\ left # top
  THEN LET r1 == gs_root(left, par)
           r2 == gs_root(top, r1.parents)
       IN IF r1.root # r2.root
          THEN [r2.parents EXCEPT ![GS_MAX(r1.root, r2.root)] = GS_MIN(r1.root, r2.root)]
          ELSE r2.parents
  ELSE par

\* A capacity test that lets one label too many through.
OutOfLabels_Late(nxt, nb) == nxt > nb + 1

\* The test that drops a pixel needing a new label once the labels are used up.
OutOfLabels(nxt, nb) == nxt > nb

\* Body of the first pass for the pixel at index pos.
ScanPixel(s, im, ww, nb, pos) ==
  LET x == pos % ww
      y == pos \div ww
      left == IF x > 0 THEN s.labels[y * ww + (x - 1)] ELSE 0
      top == IF y > 0 THEN s.labels[(y - 1) * ww + x] ELSE 0
      n == PickLabel(left, top)
  IN IF IsBackground(im[y * ww + x]) THEN s
     ELSE IF n = 0
     THEN IF OutOfLabels(s.next, nb) THEN [s EXCEPT !.dropped = @ + 1]
          ELSE [s EXCEPT
                  !.blobs[s.next - 1] =
                      gs_blob(s.next, 1, gs_rect(x, y, x, y), gs_point(x, y)),
                  !.cx[s.next - 1] = x,
                  !.cy[s.next - 1] = y,
                  !.labels[y * ww + x] = s.next,
                  !.next = (s.next + 1) % LabelMod]
     ELSE LET b == s.blobs[n - 1]
          IN [s EXCEPT
                !.labels[y * ww + x] = n,
                !.cx[n - 1] = @ + x,
                !.cy[n - 1] = @ + y,
                !.blobs[n - 1] =
                    gs_blob(b.label, b.area + 1,
                            gs_rect(GS_MIN(x, b.box.x), GS_MIN(y, b.box.y),
                                    GS_MAX(x, b.box.w), GS_MAX(y, b.box.h)),
                            b.centroid),
                !.parents = Union(left, top, s.parents)]

\* A merge that forgets the area of the merged blob.
MergeBlob_NoArea(s, k) ==
  LET r == gs_root(s.blobs[k].label, s.parents)
      root == r.root
      bi == s.blobs[k]
      br == s.blobs[root - 1]
  IN IF root # bi.label
     THEN [s EXCEPT
             !.parents = r.parents,
             !.blobs = [@ EXCEPT
                 ![root - 1] =
                     gs_blob(br.label, br.area,
                             gs_rect(GS_MIN(br.box.x, bi.box.x), GS_MIN(br.box.y, bi.box.y),
                                     GS_MAX(br.box.w, bi.box.w), GS_MAX(br.box.h, bi.box.h)),
                             br.centroid),
                 ![k] = [bi EXCEPT !.area = 0]],
             !.cx[root - 1] = @ + s.cx[k],
             !.cy[root - 1] = @ + s.cy[k]]
     ELSE [s EXCEPT !.parents = r.parents]

\* Body of the merge loop for blob index k.
MergeBlob(s, k) ==
  LET r == gs_root(s.blobs[k].label, s.parents)
      root == r.root
      bi == s.blobs[k]
      br == s.blobs[root - 1]
  IN IF root # bi.label
     THEN [s EXCEPT
             !.parents = r.parents,
             !.blobs = [@ EXCEPT
                 ![root - 1] =
                     gs_blob(br.label, br.area + bi.area,
                             gs_rect(GS_MIN(br.box.x, bi.box.x), GS_MIN(br.box.y, bi.box.y),
                                     GS_MAX(br.box.w, bi.box.w), GS_MAX(br.box.h, bi.box.h)),
                             br.centroid),
                 ![k] = [bi EXCEPT !.area = 0]],
             !.cx[root - 1] = @ + s.cx[k],
             !.cy[root - 1] = @ + s.cy[k]]
     ELSE [s EXCEPT !.parents = r.parents]

\* A second pass that leaves the provisional labels in the grid.
RelabelPixel_Skip(s, pos) == s

\* Body of the second pass for the pixel at index pos.
RelabelPixel(s, pos) ==
  LET l == s.labels[pos]
  IN IF l # 0
     THEN LET r == gs_root(l, s.parents)
          IN [s EXCEPT !.labels[pos] = r.root, !.parents = r.parents]
     ELSE s

\* A compaction that leaves the bottom-right corner in the box's w and h.
CompactBlob_RawBox(s, k) ==
  LET b == s.blobs[k]
  IN IF b.area = 0 THEN s
     ELSE LET fixed == gs_blob(b.label, b.area, b.box,
                               gs_point(s.cx[k] \div b.area, s.cy[k] \div b.area))
          IN [s EXCEPT !.blobs = [@ EXCEPT ![k] = fixed, ![s.m] = fixed],
                       !.m = @ + 1]

\* Body of the compaction loop for blob index k.
CompactBlob(s, k) ==
  LET b == s.blobs[k]
  IN IF b.area = 0 THEN s
     ELSE LET fixed == gs_blob(b.label, b.area,
                               gs_rect(b.box.x, b.box.y,
                                       b.box.w - b.box.x + 1, b.box.h - b.box.y + 1),
                               gs_point(s.cx[k] \div b.area, s.cy[k] \div b.area))
          IN [s EXCEPT !.blobs = [@ EXCEPT ![k] = fixed, ![s.m] = fixed],
                       !.m = @ + 1]

\* The locals of gs_blobs held in the variables, as one record.
BlobState ==
  [labels |-> labels, blobs |-> blobs, parents |-> parents, cx |-> cx, cy |-> cy,
   next |-> next, m |-> m, dropped |-> dropped]

SetBlobState(s) ==
  /\ labels' = s.labels
  /\ blobs' = s.blobs
  /\ parents' = s.parents
  /\ cx' = s.cx
  /\ cy' = s.cy
  /\ next' = s.next
  /\ m' = s.m
  /\ dropped' = s.dropped

\* The caller's buffers and the stack before gs_blobs runs.
CallerState(ww, hh, nb) ==
  [labels  |-> [pos \in 0..(ww * hh - 1) |-> Stale],
   blobs   |-> [k \in 0..(nb - 1) |->
                  gs_blob(Stale, Stale, gs_rect(0, 0, 0, 0), gs_point(0, 0))],
   parents |-> [k \in 0..nb |-> Stale],
   cx      |-> [k \in 0..(nb - 1) |-> Stale],
   cy      |-> [k \in 0..(nb - 1) |-> Stale],
   next    |-> 0,
   m       |-> 0,
   dropped |-> 0]

\* gs_blobs as a pure function: every loop run to its end.
RECURSIVE ScanFrom(_, _, _, _, _, _)
ScanFrom(s, im, ww, hh, nb, pos) ==
  IF pos >= ww * hh THEN s
  ELSE ScanFrom(ScanPixel(s, im, ww, nb, pos), im, ww, hh, nb, pos + 1)

RECURSIVE MergeFrom(_, _)
MergeFrom(s, k) ==
  IF k >= s.next - 1 THEN s ELSE MergeFrom(MergeBlob(s, k), k + 1)

RECURSIVE RelabelFrom(_, _, _)
RelabelFrom(s, n, pos) ==
  IF pos >= n THEN s ELSE RelabelFrom(RelabelPixel(s, pos), n, pos + 1)

RECURSIVE CompactFrom(_, _)
CompactFrom(s, k) ==
  IF k >= s.next - 1 THEN s ELSE CompactFrom(CompactBlob(s, k), k + 1)

GsBlobs(im, ww, hh, nb) ==
  LET s1 == ScanFrom(BlobsClear(CallerState(ww, hh, nb), ww, hh, nb), im, ww, hh, nb, 0)
      s2 == MergeFrom(s1, 0)
      s3 == RelabelFrom(s2, ww * hh, 0)
  IN CompactFrom(s3, 0)

\* ------------------------------------------------------- gs_blobs, stepwise
\* Idle values of the gs_blob_corners, gs_fast and gs_match_orb state while
\* another function runs.
CornersIdle ==
  /\ blob = gs_blob(0, 0, gs_rect(0, 0, 0, 0), gs_point(0, 0))
  /\ corners = [k \in 0..3 |-> gs_point(0, 0)]

FastIdle ==
  /\ scoremap = [pos \in 0..(w * h - 1) |-> 0]
  /\ kps = <<>>
  /\ nkps = 0
  /\ threshold = 0
  /\ n_out = 0

MatchIdle ==
  /\ kps1 = <<>>
  /\ kps2 = <<>>
  /\ matches = <<>>
  /\ max_matches = 0
  /\ max_distance = 0
  /\ dist = 0

\* Idle values of the resampling, pyramid and WASM allocator state.
ExtIdle ==
  /\ dst = <<>>
  /\ pyramid = <<>>
  /\ n_levels = 0
  /\ level = 0
  /\ total_kps = 0
  /\ level_nkps = <<>>
  /\ heap_ptr = 0
  /\ images = <<>>

\* Idle values of the gs_trace_contour state while gs_blobs runs.
TraceIdle ==
  /\ visited = [pos \in 0..(w * h - 1) |-> 0]
  /\ c = [box |-> gs_rect(0, 0, 0, 0), start |-> gs_point(0, 0), length |-> 0]
  /\ p = gs_point(0, 0)
  /\ dir = 0
  /\ seenstart = 0

\* The caller's buffers and the arguments at the call of gs_blobs.
Init ==
  /\ w \in 1..MaxW
  /\ h \in 1..MaxH
  /\ w * h <= MaxArea
  /\ img \in Images(w, h, BlobLevels)
  /\ nblobs \in Capacities
  /\ LET cs == CallerState(w, h, nblobs)
     IN /\ labels = cs.labels
        /\ blobs = cs.blobs
        /\ parents = cs.parents
        /\ cx = cs.cx
        /\ cy = cs.cy
        /\ next = cs.next
        /\ m = cs.m
        /\ dropped = cs.dropped
  /\ i = 0
  /\ ret = 0
  /\ TraceIdle
  /\ CornersIdle
  /\ FastIdle
  /\ MatchIdle
  /\ ExtIdle
  /\ pc = "start"

BlobsInit ==
  /\ pc = "start"
  /\ SetBlobState(BlobsClear(BlobState, w, h, nblobs))
  /\ i' = 0
  /\ pc' = "scan"
  /\ UNCHANGED <<extVars, w, h, img, nblobs, ret, traceVars, cornerVars, fastVars, matchVars>>

\* One iteration of the first pass; the loop ends after the last pixel.
FirstPass ==
  /\ pc = "scan"
  /\ i < w * h
  /\ SetBlobState(ScanPixel(BlobState, img, w, nblobs, i))
  /\ i' = i + 1
  /\ pc' = IF i + 1 < w * h THEN "scan" ELSE "merge"
  /\ UNCHANGED <<extVars, w, h, img, nblobs, ret, traceVars, cornerVars, fastVars, matchVars>>

\* The merge loop.
Merge ==
  /\ pc = "merge"
  /\ SetBlobState(MergeFrom(BlobState, 0))
  /\ i' = 0
  /\ pc' = "relabel"
  /\ UNCHANGED <<extVars, w, h, img, nblobs, ret, traceVars, cornerVars, fastVars, matchVars>>

\* The second pass.
SecondPass ==
  /\ pc = "relabel"
  /\ SetBlobState(RelabelFrom(BlobState, w * h, 0))
  /\ i' = 0
  /\ pc' = "compact"
  /\ UNCHANGED <<extVars, w, h, img, nblobs, ret, traceVars, cornerVars, fastVars, matchVars>>

\* The compaction loop and the return.
Compact ==
  /\ pc = "compact"
  /\ LET s == CompactFrom(BlobState, 0)
     IN SetBlobState(s) /\ ret' = s.m
  /\ i' = 0
  /\ pc' = "done"
  /\ UNCHANGED <<extVars, w, h, img, nblobs, traceVars, cornerVars, fastVars, matchVars>>

\* ---------------------------------------------------------- gs_blob_corners
INT_MAX == 2147483647
INT_MIN == -2147483647 - 1

\* The loop body with non-strict comparisons: the last extremal pixel wins.
CornerPixel_LastWins(a, im, ww, lab, bb, x, y) ==
  IF IsBackground(im[y * ww + x]) THEN a
  ELSE IF lab[y * ww + x] # bb.label THEN a
  ELSE LET sum == x + y
           diff == x - y
           a1 == IF sum <= a.min_sum
                 THEN [a EXCEPT !.min_sum = sum, !.tl = gs_point(x, y)] ELSE a
           a2 == IF sum >= a1.max_sum
                 THEN [a1 EXCEPT !.max_sum = sum, !.br = gs_point(x, y)] ELSE a1
           a3 == IF diff <= a2.min_diff
                 THEN [a2 EXCEPT !.min_diff = diff, !.bl = gs_point(x, y)] ELSE a2
       IN IF diff >= a3.max_diff
          THEN [a3 EXCEPT !.max_diff = diff, !.tr = gs_point(x, y)] ELSE a3

\* The body of the two loops for the pixel (x, y) of the box.
CornerPixel(a, im, ww, lab, bb, x, y) ==
  IF IsBackground(im[y * ww + x]) THEN a
  ELSE IF lab[y * ww + x] # bb.label THEN a
  ELSE LET sum == x + y
           diff == x - y
           a1 == IF sum < a.min_sum
                 THEN [a EXCEPT !.min_sum = sum, !.tl = gs_point(x, y)] ELSE a
           a2 == IF sum > a1.max_sum
                 THEN [a1 EXCEPT !.max_sum = sum, !.br = gs_point(x, y)] ELSE a1
           a3 == IF diff < a2.min_diff
                 THEN [a2 EXCEPT !.min_diff = diff, !.bl = gs_point(x, y)] ELSE a2
       IN IF diff > a3.max_diff
          THEN [a3 EXCEPT !.max_diff = diff, !.tr = gs_point(x, y)] ELSE a3

\* The two nested loops over the box, from the pixel (x, y) on.
RECURSIVE CornersFrom(_, _, _, _, _, _, _)
CornersFrom(a, im, ww, lab, bb, x, y) ==
  IF y >= bb.box.y + bb.box.h THEN a
  ELSE IF x >= bb.box.x + bb.box.w THEN CornersFrom(a, im, ww, lab, bb, bb.box.x, y + 1)
  ELSE CornersFrom(CornerPixel(a, im, ww, lab, bb, x, y), im, ww, lab, bb, x + 1, y)

\* The whole call: the output array c[0..3] = tl, tr, br, bl.
gs_blob_corners(im, ww, lab, bb) ==
  LET a0 == [tl |-> bb.centroid, tr |-> bb.centroid, br |-> bb.centroid,
             bl |-> bb.centroid, min_sum |-> INT_MAX, max_sum |-> INT_MIN,
             min_diff |-> INT_MAX, max_diff |-> INT_MIN]
      a == CornersFrom(a0, im, ww, lab, bb, bb.box.x, bb.box.y)
  IN (0 :> a.tl) @@ (1 :> a.tr) @@ (2 :> a.br) @@ (3 :> a.bl)

\* The caller passes one of the blobs gs_blobs returned, with the image and the
\* label grid of that call, or such a blob record with a label no cell holds.
BlobCorners ==
  /\ pc = "done"
  /\ \E k \in 0..(ret - 1) :
       \E bb \in {blobs[k], [blobs[k] EXCEPT !.label = next]} :
          /\ blob' = bb
          /\ corners' = gs_blob_corners(img, w, labels, bb)
  /\ pc' = "corners"
  /\ UNCHANGED <<extVars, w, h, img, blobVars, i, traceVars, fastVars, matchVars>>

Next ==
  \/ BlobsInit
  \/ FirstPass
  \/ Merge
  \/ SecondPass
  \/ Compact

Spec == Init /\ [][Next]_vars

\* gs_blobs followed by a call of gs_blob_corners on its result.
NextCorners ==
  \/ Next
  \/ BlobCorners

SpecCorners == Init /\ [][NextCorners]_vars

\* --------------------------------------------------------- gs_trace_contour
\* The neighbour offsets, indexed by direction 0..7 (E, SE, S, SW, W, NW, N, NE).
dx == <<1, 1, 0, -1, -1, -1, 0, 1>>
dy == <<0, 1, 1, 1, 0, -1, -1, -1>>

\* The test that lets the walk step on the pixel (nx, ny).
CanStep(im, ww, hh, nx, ny) ==
  /\ nx >= 0 /\ nx < ww /\ ny >= 0 /\ ny < hh
  /\ im[ny * ww + nx] > FgLevel

\* The first direction, scanning the ring from ndir, that can be stepped to
\* (8 if there is none).
RECURSIVE FirstStep(_, _, _, _, _, _)
FirstStep(im, ww, hh, pt, ndir, k) ==
  IF k >= 8 THEN 8
  ELSE IF CanStep(im, ww, hh, pt.x + dx[((ndir + k) % 8) + 1],
                              pt.y + dy[((ndir + k) % 8) + 1])
  THEN (ndir + k) % 8
  ELSE FirstStep(im, ww, hh, pt, ndir, k + 1)

\* The running bounding box after the move to pt.
GrowBox(box, pt) ==
  LET bx == GS_MIN(box.x, pt.x)
      by == GS_MIN(box.y, pt.y)
  IN gs_rect(bx, by, GS_MAX(box.w, pt.x - bx + 1), GS_MAX(box.h, pt.y - by + 1))

\* Locals of gs_trace_contour after the statements before the loop.
TraceBegin(t) ==
  [t EXCEPT !.c.length = 0,
            !.c.box = gs_rect(t.c.start.x, t.c.start.y, 1, 1),
            !.p = t.c.start,
            !.dir = 7,
            !.seenstart = 0,
            !.stop = "no"]

\* The loop body counting every iteration instead of every newly marked pixel.
TraceBody_CountSteps(t, im, ww, hh) ==
  LET cell == t.p.y * ww + t.p.x
      len == t.c.length + 1
      vis == [t.visited EXCEPT ![cell] = 255]
      ndir == (t.dir + 1) % 8
      d == FirstStep(im, ww, hh, t.p, ndir, 0)
      np == gs_point(t.p.x + dx[d + 1], t.p.y + dy[d + 1])
      atStart == np.x = t.c.start.x /\ np.y = t.c.start.y
  IN IF d = 8
     THEN [t EXCEPT !.c.length = len, !.visited = vis, !.stop = "open"]
     ELSE [t EXCEPT !.c.length = len,
                    !.visited = vis,
                    !.p = np,
                    !.dir = (d + 6) % 8,
                    !.c.box = GrowBox(t.c.box, np),
                    !.seenstart = IF atStart THEN 1 ELSE @,
                    !.stop = IF atStart /\ t.seenstart # 0 THEN "closed" ELSE "no"]

\* One iteration of the tracing loop; stop tells which break ended it, if any.
TraceBody(t, im, ww, hh) ==
  LET cell == t.p.y * ww + t.p.x
      len == IF t.visited[cell] = 0 THEN t.c.length + 1 ELSE t.c.length
      vis == [t.visited EXCEPT ![cell] = 255]
      ndir == (t.dir + 1) % 8
      d == FirstStep(im, ww, hh, t.p, ndir, 0)
      np == gs_point(t.p.x + dx[d + 1], t.p.y + dy[d + 1])
      atStart == np.x = t.c.start.x /\ np.y = t.c.start.y
  IN IF d = 8
     THEN [t EXCEPT !.c.length = len, !.visited = vis, !.stop = "open"]
     ELSE [t EXCEPT !.c.length = len,
                    !.visited = vis,
                    !.p = np,
                    !.dir = (d + 6) % 8,
                    !.c.box = GrowBox(t.c.box, np),
                    !.seenstart = IF atStart THEN 1 ELSE @,
                    !.stop = IF atStart /\ t.seenstart # 0 THEN "closed" ELSE "no"]

TraceState ==
  [visited |-> visited, c |-> c, p |-> p, dir |-> dir, seenstart |-> seenstart,
   stop |-> "no"]

SetTraceState(t) ==
  /\ visited' = t.visited
  /\ c' = t.c
  /\ p' = t.p
  /\ dir' = t.dir
  /\ seenstart' = t.seenstart

\* The caller's image, zero-cleared visited buffer and start point at the call
\* of gs_trace_contour.
InitTrace ==
  /\ w \in 1..MaxW
  /\ h \in 1..MaxH
  /\ w * h <= MaxTraceArea
  /\ img \in Images(w, h, TraceLevels)
  /\ visited = [pos \in 0..(w * h - 1) |-> 0]
  /\ \E sx \in 0..(w - 1), sy \in 0..(h - 1) :
        c = [box |-> gs_rect(Stale, Stale, Stale, Stale),
             start |-> gs_point(sx, sy), length |-> Stale]
  /\ p = gs_point(Stale, Stale)
  /\ dir = Stale
  /\ seenstart = Stale
  /\ nblobs = 1
  /\ LET cs == CallerState(w, h, 1)
     IN /\ labels = cs.labels
        /\ blobs = cs.blobs
        /\ parents = cs.parents
        /\ cx = cs.cx
        /\ cy = cs.cy
        /\ next = cs.next
        /\ m = cs.m
        /\ dropped = cs.dropped
  /\ i = 0
  /\ ret = 0
  /\ CornersIdle
  /\ FastIdle
  /\ MatchIdle
  /\ ExtIdle
  /\ pc = "tstart"

TraceInit ==
  /\ pc = "tstart"
  /\ SetTraceState(TraceBegin(TraceState))
  /\ pc' = "trace"
  /\ UNCHANGED <<extVars, w, h, img, blobVars, i, cornerVars, fastVars, matchVars>>

\* An iteration after which the loop goes on.
TraceStep ==
  /\ pc = "trace"
  /\ \E t \in {TraceBody(TraceState, img, w, h)} :
        t.stop = "no" /\ SetTraceState(t)
  /\ UNCHANGED <<extVars, w, h, img, blobVars, i, pc, cornerVars, fastVars, matchVars>>

\* The iteration that finds no neighbour to step to: break, open contour.
TraceOpen ==
  /\ pc = "trace"
  /\ \E t \in {TraceBody(TraceState, img, w, h)} :
        t.stop = "open" /\ SetTraceState(t)
  /\ pc' = "open"
  /\ UNCHANGED <<extVars, w, h, img, blobVars, i, cornerVars, fastVars, matchVars>>

\* The iteration that steps on the start point for the second time: break.
TraceClosed ==
  /\ pc = "trace"
  /\ \E t \in {TraceBody(TraceState, img, w, h)} :
        t.stop = "closed" /\ SetTraceState(t)
  /\ pc' = "closed"
  /\ UNCHANGED <<extVars, w, h, img, blobVars, i, cornerVars, fastVars, matchVars>>

NextTrace ==
  \/ TraceInit
  \/ TraceStep
  \/ TraceOpen
  \/ TraceClosed

SpecTrace == InitTrace /\ [][NextTrace]_vars

\* The same calls on the images of at most MaxLiveArea pixels.
InitTraceSmall == InitTrace /\ w * h <= MaxLiveArea

\* The function runs on its own: an enabled statement is eventually executed.
FairSpecTrace == InitTraceSmall /\ [][NextTrace]_vars /\ WF_vars(NextTrace)

\* ------------------------------------------------------ gs_hamming_distance
\* A uint32_t descriptor word is the set of its bit positions that are 1
\* (bit 0 is the least significant); a descriptor is the array of 8 words.
WordBits == 0..31
WordXor(a, c2) == (a \ c2) \cup (c2 \ a)
ShiftRight(x) == {k - 1 : k \in x \ {0}}

\* while (xor) dist += xor & 1, xor >>= 1;  -- what the loop adds to dist.
RECURSIVE CountBits(_)
CountBits(x) ==
  IF x = {} THEN 0
  ELSE (IF 0 \in x THEN 1 ELSE 0) + CountBits(ShiftRight(x))

\* The distance computed over the first seven words only.
RECURSIVE gs_hamming_distance_SevenWords(_, _, _)
gs_hamming_distance_SevenWords(desc1, desc2, k) ==
  IF k >= 7 THEN 0
  ELSE CountBits(WordXor(desc1[k], desc2[k]))
       + gs_hamming_distance_SevenWords(desc1, desc2, k + 1)

\* The loop over the 8 words from word k on: what it adds to dist.  The call
\* is gs_hamming_distance(desc1, desc2, 0), dist starting at 0.
RECURSIVE gs_hamming_distance(_, _, _)
gs_hamming_distance(desc1, desc2, k) ==
  IF k >= 8 THEN 0
  ELSE CountBits(WordXor(desc1[k], desc2[k])) + gs_hamming_distance(desc1, desc2, k + 1)

gs_keypoint(pt, response, angle, descriptor) ==
  [pt |-> pt, response |-> response, angle |-> angle, descriptor |-> descriptor]
gs_match(idx1, idx2, distance) == [idx1 |-> idx1, idx2 |-> idx2, distance |-> distance]

\* A keypoint with the descriptor desc, as gs_match_orb and gs_hamming_distance
\* read it.
Described(desc) == gs_keypoint(gs_point(0, 0), 0, 0, desc)

\* Descriptor words and descriptors for the calls of gs_hamming_distance: one
\* word of the descriptor differs from the word that fills the others.
HammingWords == {{}, {0}, {31}, {0, 15, 31}, WordBits}
HammingDescs ==
  {[k \in 0..7 |-> IF k = pos THEN sp ELSE fill] :
     pos \in 0..7, sp \in HammingWords, fill \in {{}, WordBits}}

\* Two descriptors at the call of gs_hamming_distance.
InitHamming ==
  /\ w = 1 /\ h = 1
  /\ img = [pos \in {0} |-> 0]
  /\ nblobs = 1
  /\ LET cs == CallerState(1, 1, 1)
     IN /\ labels = cs.labels
        /\ blobs = cs.blobs
        /\ parents = cs.parents
        /\ cx = cs.cx
        /\ cy = cs.cy
        /\ next = cs.next
        /\ m = cs.m
        /\ dropped = cs.dropped
  /\ i = 0
  /\ ret = 0
  /\ TraceIdle
  /\ CornersIdle
  /\ FastIdle
  /\ \E a \in HammingDescs, c2 \in HammingDescs :
        /\ kps1 = (0 :> Described(a))
        /\ kps2 = (0 :> Described(c2))
  /\ matches = <<>>
  /\ max_matches = 0
  /\ max_distance = 0
  /\ dist = Stale
  /\ ExtIdle
  /\ pc = "hstart"

HammingCall ==
  /\ pc = "hstart"
  /\ dist' = gs_hamming_distance(kps1[0].descriptor, kps2[0].descriptor, 0)
  /\ pc' = "hdone"
  /\ UNCHANGED <<extVars, w, h, img, blobVars, i, traceVars, cornerVars, fastVars,
                 kps1, kps2, matches, max_matches, max_distance>>

NextHamming ==
  \/ HammingCall

SpecHamming == InitHamming /\ [][NextHamming]_vars

\* ------------------------------------------------------------- gs_match_orb
n1 == Cardinality(DOMAIN kps1)
n2 == Cardinality(DOMAIN kps2)

\* The ratio test with the product truncated to an integer.
RatioTest_Floor(best, second) == best < (4 * second) \div 5

\* best_dist < 0.8f * second_best, for a distance best (an integer 0..256 held
\* in a float) and an integer second: the float product rounds to 4*second/5
\* when that is an integer and lies strictly between the neighbouring integers
\* otherwise, so the float comparison is the integer comparison below.
RatioTest(best, second) == 5 * best < 4 * second

\* The inner loop that never updates second_best on a runner-up.
RECURSIVE BestTwo_NoRunnerUp(_, _, _, _)
BestTwo_NoRunnerUp(a, desc, set2, j) ==
  IF j >= Cardinality(DOMAIN set2) THEN a
  ELSE LET d == gs_hamming_distance(desc, set2[j].descriptor, 0)
       IN BestTwo_NoRunnerUp(
            IF d < a.best_dist
            THEN [second_best |-> a.best_dist, best_dist |-> d, best_idx |-> j]
            ELSE a,
            desc, set2, j + 1)

\* The inner loop over set 2 from index j on; a holds best_dist, second_best
\* and best_idx.
RECURSIVE BestTwo(_, _, _, _)
BestTwo(a, desc, set2, j) ==
  IF j >= Cardinality(DOMAIN set2) THEN a
  ELSE LET d == gs_hamming_distance(desc, set2[j].descriptor, 0)
       IN BestTwo(
            IF d < a.best_dist
            THEN [second_best |-> a.best_dist, best_dist |-> d, best_idx |-> j]
            ELSE IF d < a.second_best
            THEN [a EXCEPT !.second_best = d]
            ELSE a,
            desc, set2, j + 1)

\* The body of the outer loop for one keypoint of set 1: the inner loop and the
\* acceptance test.
MatchOne(desc, set2, maxd) ==
  LET a == BestTwo([best_dist |-> maxd + 1, second_best |-> maxd + 1, best_idx |-> 0],
                   desc, set2, 0)
  IN [accept |-> a.best_dist <= maxd /\ RatioTest(a.best_dist, a.second_best),
      best_idx |-> a.best_idx,
      best_dist |-> a.best_dist]

\* The descriptors of the matched sets: the first k bits of word 0 set, so that
\* two of them are |k1 - k2| apart.
LowBits(k) == [j \in 0..7 |-> IF j = 0 THEN 0..(k - 1) ELSE {}]
MatchDescs == {LowBits(0), LowBits(4), LowBits(5)}
MaxDistances == {0, 4, 256}
KeypointSets(maxn) ==
  UNION {[0..(k - 1) -> {Described(d) : d \in MatchDescs}] : k \in 0..maxn}

\* The match buffer in memory: the caller's max_matches cells followed by
\* cells that are not the caller's, all holding what was there before.
StaleMatch == gs_match(Stale, Stale, Stale)

\* Two keypoint sets, the match buffer and the arguments at the call of
\* gs_match_orb.
InitMatch ==
  /\ w = 1 /\ h = 1
  /\ img = [pos \in {0} |-> 0]
  /\ nblobs = 1
  /\ LET cs == CallerState(1, 1, 1)
     IN /\ labels = cs.labels
        /\ blobs = cs.blobs
        /\ parents = cs.parents
        /\ cx = cs.cx
        /\ cy = cs.cy
        /\ next = cs.next
        /\ m = cs.m
        /\ dropped = cs.dropped
  /\ i = Stale
  /\ ret = 0
  /\ TraceIdle
  /\ CornersIdle
  /\ scoremap = [pos \in {0} |-> 0]
  /\ kps = <<>>
  /\ nkps = 0
  /\ threshold = 0
  /\ n_out = Stale
  /\ kps1 \in KeypointSets(MaxN1)
  /\ kps2 \in KeypointSets(MaxN2)
  /\ max_matches \in 0..MaxMatches
  /\ matches = [k \in 0..MaxMatches |-> StaleMatch]
  /\ max_distance \in MaxDistances
  /\ dist = 0
  /\ ExtIdle
  /\ pc = "mstart"

MatchInit ==
  /\ pc = "mstart"
  /\ n_out' = 0
  /\ i' = 0
  /\ pc' = "match"
  /\ UNCHANGED <<extVars, w, h, img, blobVars, traceVars, cornerVars, scoremap, kps, nkps,
                 threshold, matchVars>>

\* The outer loop going on while keypoints are left, whatever the count.
MatchStep_NoCapacity ==
  /\ pc = "match"
  /\ i < n1
  /\ \E r \in {MatchOne(kps1[i].descriptor, kps2, max_distance)} :
        IF r.accept
        THEN /\ matches' = [matches EXCEPT ![n_out] = gs_match(i, r.best_idx, r.best_dist)]
             /\ n_out' = n_out + 1
        ELSE UNCHANGED <<matches, n_out>>
  /\ i' = i + 1
  /\ UNCHANGED <<extVars, w, h, img, blobVars, traceVars, cornerVars, scoremap, kps, nkps,
                 threshold, kps1, kps2, max_matches, max_distance, dist, pc>>

\* One iteration of the outer loop.
MatchStep ==
  /\ pc = "match"
  /\ i < n1 /\ n_out < max_matches
  /\ \E r \in {MatchOne(kps1[i].descriptor, kps2, max_distance)} :
        IF r.accept
        THEN /\ matches' = [matches EXCEPT ![n_out] = gs_match(i, r.best_idx, r.best_dist)]
             /\ n_out' = n_out + 1
        ELSE UNCHANGED <<matches, n_out>>
  /\ i' = i + 1
  /\ UNCHANGED <<extVars, w, h, img, blobVars, traceVars, cornerVars, scoremap, kps, nkps,
                 threshold, kps1, kps2, max_matches, max_distance, dist, pc>>

\* The loop condition fails: return n.
MatchReturn ==
  /\ pc = "match"
  /\ ~(i < n1 /\ n_out < max_matches)
  /\ pc' = "mdone"
  /\ UNCHANGED <<extVars, w, h, img, nblobs, labels, blobs, parents, cx, cy, next, m, dropped,
                 i, traceVars, cornerVars, fastVars, matchVars>>
  /\ ret' = n_out

NextMatch ==
  \/ MatchInit
  \/ MatchStep
  \/ MatchReturn

SpecMatch == InitMatch /\ [][NextMatch]_vars

\* ------------------------------------------------------------------ gs_fast
\* The 16 ring offsets, indexed 0..15 as in the source (tuples are 1-based).
fast_dx == <<0, 1, 2, 3, 3, 3, 2, 1, 0, -1, -2, -3, -3, -3, -2, -1>>
fast_dy == <<-3, -3, -2, -1, 0, 1, 2, 3, 3, 3, 2, 1, 0, -1, -2, -3>>

\* Values of type unsigned are held as their 32-bit pattern read as a two's
\* complement integer (the integer congruent modulo 2^32 in -2^31 .. 2^31-1):
\* sums and differences of the small values used here are that pattern without
\* reduction, and a < b on unsigned operands is the comparison below.
UnsignedLess(a, c2) == IF (a < 0) = (c2 < 0) THEN a < c2 ELSE c2 < 0

gs_get(im, ww, hh, x, y) ==
  IF UnsignedLess(x, ww) /\ UnsignedLess(y, hh) THEN im[y * ww + x] ELSE 0

\* The ring sample of index idx around (x, y).
RingSample(im, ww, x, y, idx) == im[(y + fast_dy[idx + 1]) * ww + (x + fast_dx[idx + 1])]

\* The two threshold tests on ordinary integers.
Brighter_Signed(v, pp, thr) == v > pp + thr
Darker_Signed(v, pp, thr) == v < pp - thr

\* v > p + threshold and v < p - threshold: uint8_t v and p are promoted to
\* int and then converted to unsigned, the type of threshold.
Brighter(v, pp, thr) == UnsignedLess(pp + thr, v)
Darker(v, pp, thr) == UnsignedLess(v, pp - thr)

\* The loop over the 16 + 9 samples from i = k on, with the run so far: TRUE
\* when it reaches the break of a run of 9.
RECURSIVE FindRun(_, _, _, _, _, _, _)
FindRun(im, ww, x, y, thr, k, run) ==
  IF k >= 16 + 9 THEN FALSE
  ELSE LET pp == im[y * ww + x]
           v == RingSample(im, ww, x, y, k % 16)
           nrun == IF Brighter(v, pp, thr) THEN (IF run > 0 THEN run + 1 ELSE 1)
                   ELSE IF Darker(v, pp, thr) THEN (IF run < 0 THEN run - 1 ELSE -1)
                   ELSE 0
       IN IF nrun >= 9 \/ nrun <= -9 THEN TRUE
          ELSE FindRun(im, ww, x, y, thr, k + 1, nrun)

\* The loop over the 16 samples from j = k on that lowers score to the smallest
\* absolute difference from the centre.
RECURSIVE MinDeviation(_, _, _, _, _, _, _)
MinDeviation(im, ww, hh, x, y, k, score) ==
  IF k >= 16 THEN score
  ELSE LET d0 == gs_get(im, ww, hh, x + fast_dx[k + 1], y + fast_dy[k + 1]) - im[y * ww + x]
           d == IF d0 < 0 THEN -d0 ELSE d0
       IN MinDeviation(im, ww, hh, x, y, k + 1, IF d < score THEN d ELSE score)

\* The score the first pass stores for the pixel (x, y).
FastScore(im, ww, hh, x, y, thr) ==
  IF FindRun(im, ww, x, y, thr, 0, 0)
  THEN MinDeviation(im, ww, hh, x, y, 0, 255)
  ELSE 0

\* The cells one iteration of either pass touches for the pixel (x, y): the
\* centre, the 16 ring samples and the 8 neighbours.
FastCells(ww, x, y) ==
  {y * ww + x}
    \cup {(y + fast_dy[k + 1]) * ww + (x + fast_dx[k + 1]) : k \in 0..15}
    \cup {(y + yy) * ww + (x + xx) : yy \in -1..1, xx \in -1..1}

\* The loops "y = 3; y < img.h - 3" and "x = 3; x < img.w - 3" from the pixel
\* (x, y) on: TRUE when an iteration indexes img.data or scoremap.data outside
\* their w*h cells.  The bounds are unsigned, so img.w - 3 and img.h - 3 wrap
\* around for a width or height below 3.
RECURSIVE FastLeavesBuffer(_, _, _, _)
FastLeavesBuffer(ww, hh, x, y) ==
  IF ~UnsignedLess(3, ww - 3) THEN FALSE
  ELSE IF ~UnsignedLess(y, hh - 3) THEN FALSE
  ELSE IF ~UnsignedLess(x, ww - 3) THEN FastLeavesBuffer(ww, hh, 3, y + 1)
  ELSE IF \E q \in FastCells(ww, x, y) : q \notin 0..(ww * hh - 1) THEN TRUE
  ELSE FastLeavesBuffer(ww, hh, x + 1, y)

\* The first pass from the pixel (x, y) on: the score map it leaves.  When the
\* inner loop cannot run for any y the outer loop has no effect.
RECURSIVE ScoreFrom(_, _, _, _, _, _, _)
ScoreFrom(sm, im, ww, hh, thr, x, y) ==
  IF ~UnsignedLess(3, ww - 3) THEN sm
  ELSE IF ~UnsignedLess(y, hh - 3) THEN sm
  ELSE IF ~UnsignedLess(x, ww - 3) THEN ScoreFrom(sm, im, ww, hh, thr, 3, y + 1)
  ELSE ScoreFrom([sm EXCEPT ![y * ww + x] = FastScore(im, ww, hh, x, y, thr)],
                 im, ww, hh, thr, x + 1, y)

\* An is_max that a neighbour of equal score also clears.
IsMax_NoTies(sm, ww, x, y) ==
  \A yy \in -1..1, xx \in -1..1 :
     (xx = 0 /\ yy = 0) \/ ~(sm[(y + yy) * ww + (x + xx)] >= sm[y * ww + x])

\* is_max of the second pass: no one of the 8 neighbours has a greater score.
IsMax(sm, ww, x, y) ==
  \A yy \in -1..1, xx \in -1..1 :
     (xx = 0 /\ yy = 0) \/ ~(sm[(y + yy) * ww + (x + xx)] > sm[y * ww + x])

zero_descriptor == [k \in 0..7 |-> {}]

\* The body of the second pass that stores a maximum whatever the count.
NmsPixel_NoCapacity(a, sm, ww, nk, x, y) ==
  LET sc == sm[y * ww + x]
  IN IF sc = 0 THEN a
     ELSE IF IsMax(sm, ww, x, y)
     THEN [kps |-> [a.kps EXCEPT ![a.n] = gs_keypoint(gs_point(x, y), sc, 0, zero_descriptor)],
           n |-> a.n + 1]
     ELSE a

\* The body of the second pass for the pixel (x, y); a holds kps and n.
NmsPixel(a, sm, ww, nk, x, y) ==
  LET sc == sm[y * ww + x]
  IN IF sc = 0 THEN a
     ELSE IF IsMax(sm, ww, x, y) /\ a.n < nk
     THEN [kps |-> [a.kps EXCEPT ![a.n] = gs_keypoint(gs_point(x, y), sc, 0, zero_descriptor)],
           n |-> a.n + 1]
     ELSE a

\* The second pass from the pixel (x, y) on.
RECURSIVE NmsFrom(_, _, _, _, _, _, _)
NmsFrom(a, sm, ww, hh, nk, x, y) ==
  IF ~UnsignedLess(3, ww - 3) THEN a
  ELSE IF ~UnsignedLess(y, hh - 3) THEN a
  ELSE IF ~UnsignedLess(x, ww - 3) THEN NmsFrom(a, sm, ww, hh, nk, 3, y + 1)
  ELSE NmsFrom(NmsPixel(a, sm, ww, nk, x, y), sm, ww, hh, nk, x + 1, y)

\* The interior pixels (margin 3) of a ww-by-hh image, as cell indices.
Interior(ww, hh) ==
  {y * ww + x : x \in 3..(ww - 4), y \in 3..(hh - 4)}

\* The ring cells of the arc of len samples from sample s around the cell q,
\* without its middle sample when holed.
ArcCells(ww, q, s, len, holed) ==
  {((q \div ww) + fast_dy[((s + t) % 16) + 1]) * ww + ((q % ww) + fast_dx[((s + t) % 16) + 1]) :
     t \in {u \in 0..(len - 1) : ~(holed /\ u = len \div 2)}}

\* Grey levels <<outside the arc, on the arc>>, centre values and thresholds.
FastLevels == {<<0, 255>>, <<15, 40>>}
Centres == {10, 100}
Thresholds == {0, 20}

\* Arc starts and lengths are tried one sample apart on the image with a single
\* interior pixel and four samples apart on the larger ones.
ArcStep(ww, hh) == IF Cardinality(Interior(ww, hh)) = 1 THEN 1 ELSE 4

\* The input images: an arc of one level on the ring of an interior pixel, the
\* other level elsewhere, and a centre value in every interior pixel.
FastImages(ww, hh) ==
  {LET arc == ArcCells(ww, q, s, len, holed)
   IN [pos \in 0..(ww * hh - 1) |->
         IF pos \in Interior(ww, hh) THEN cen[pos]
         ELSE IF pos \in arc THEN lv[2] ELSE lv[1]] :
     q \in Interior(ww, hh),
     s \in {u \in 0..15 : u % ArcStep(ww, hh) = 0},
     len \in {u \in 0..16 : u % ArcStep(ww, hh) = 0},
     holed \in BOOLEAN,
     lv \in FastLevels, cen \in [Interior(ww, hh) -> Centres]}

\* The input images without an interior pixel: one grey level everywhere.
FlatImages(ww, hh) == {[pos \in 0..(ww * hh - 1) |-> v] : v \in {0, 255}}

\* What the keypoint buffer holds before the call: the caller's nkps cells
\* followed by cells that are not the caller's.
StaleKeypoint == gs_keypoint(gs_point(Stale, Stale), Stale, Stale, zero_descriptor)
\* What a score map that was not cleared holds.
StaleScore == 200

\* The image, the score map, the keypoint buffer and the arguments at the call
\* of gs_fast.
InitFast ==
  /\ w \in 1..MaxFastW
  /\ h \in 1..MaxFastH
  /\ w * h <= MaxFastArea
  /\ img \in IF Interior(w, h) # {} THEN FastImages(w, h) ELSE FlatImages(w, h)
  /\ scoremap \in {[pos \in 0..(w * h - 1) |-> 0], [pos \in 0..(w * h - 1) |-> StaleScore]}
  /\ nkps \in {1, MaxKps}
  /\ kps = [k \in 0..MaxKps |-> StaleKeypoint]
  /\ threshold \in Thresholds
  /\ n_out = Stale
  /\ nblobs = 1
  /\ LET cs == CallerState(1, 1, 1)
     IN /\ labels = cs.labels
        /\ blobs = cs.blobs
        /\ parents = cs.parents
        /\ cx = cs.cx
        /\ cy = cs.cy
        /\ next = cs.next
        /\ m = cs.m
        /\ dropped = cs.dropped
  /\ i = 0
  /\ ret = 0
  /\ visited = <<>>
  /\ c = [box |-> gs_rect(0, 0, 0, 0), start |-> gs_point(0, 0), length |-> 0]
  /\ p = gs_point(0, 0)
  /\ dir = 0
  /\ seenstart = 0
  /\ CornersIdle
  /\ MatchIdle
  /\ ExtIdle
  /\ pc = "fstart"

\* unsigned n = 0 and the first pass: the score map.
FastFirstPass ==
  /\ pc = "fstart"
  /\ ~FastLeavesBuffer(w, h, 3, 3)
  /\ n_out' = 0
  /\ scoremap' = ScoreFrom(scoremap, img, w, h, threshold, 3, 3)
  /\ pc' = "fnms"
  /\ UNCHANGED <<extVars, w, h, img, blobVars, i, traceVars, cornerVars, kps, nkps, threshold,
                 matchVars>>

\* The second pass, non-maximum suppression, and the return.
FastSecondPass ==
  /\ pc = "fnms"
  /\ \E a \in {NmsFrom([kps |-> kps, n |-> n_out], scoremap, w, h, nkps, 3, 3)} :
        /\ kps' = a.kps
        /\ n_out' = a.n
        /\ ret' = a.n
  /\ pc' = "fdone"
  /\ UNCHANGED <<extVars, w, h, img, nblobs, labels, blobs, parents, cx, cy, next, m, dropped,
                 i, traceVars, cornerVars, scoremap, nkps, threshold, matchVars>>

\* A pass that indexes outside the buffers: undefined behaviour, after which
\* the call may return any count or not return.
FastFault ==
  /\ pc = "fstart"
  /\ FastLeavesBuffer(w, h, 3, 3)
  /\ n_out' \in 0..nkps
  /\ ret' = n_out'
  /\ pc' = "ffault"
  /\ UNCHANGED <<extVars, w, h, img, nblobs, labels, blobs, parents, cx, cy, next, m,
                 dropped, i, traceVars, cornerVars, scoremap, kps, nkps, threshold,
                 matchVars>>

NextFast ==
  \/ FastFirstPass
  \/ FastSecondPass
  \/ FastFault

SpecFast == InitFast /\ [][NextFast]_vars

\* --------------------------------------------- gs_blobs: the label counter
\* The first pass over the last w pixels of an image of one row, where top is
\* always 0 and only the cell to the left is read back.  blobs, cx, cy and
\* parents (nblobs, nblobs, nblobs and nblobs + 1 cells) are not held: the
\* indices used on them are.
LabelCapacities == {1, 3, LabelMod - 2, LabelMod - 1, LabelMod}
\* The counter after 65533 labels: the pixels before the modelled ones were
\* foreground and background in turn, each foreground pixel a new component.
NearWrap == LabelMod - 2

\* The index into blobs, cx and cy that the iteration for pixel x uses, if any:
\* next - 1 for a new component, n - 1 for an existing one.  next is promoted
\* to int, so next - 1 is -1 when the 16-bit counter holds 0.
BlobIndices(im, lab, nxt, nb, x) ==
  LET left == IF x > 0 THEN lab[x - 1] ELSE 0
      n == PickLabel(left, 0)
  IN IF IsBackground(im[x]) THEN {}
     ELSE IF n = 0 THEN (IF OutOfLabels(nxt, nb) THEN {} ELSE {nxt - 1})
     ELSE {n - 1}

\* next++ on the 16-bit gs_label.
NextLabel(nxt) == (nxt + 1) % LabelMod

\* The labels, counter and skipped pixels after the iteration for pixel x.
ScanLabel(s, im, nb, x) ==
  LET left == IF x > 0 THEN s.labels[x - 1] ELSE 0
      n == PickLabel(left, 0)
  IN IF IsBackground(im[x]) THEN s
     ELSE IF n = 0
     THEN IF OutOfLabels(s.next, nb) THEN [s EXCEPT !.dropped = @ + 1]
          ELSE [s EXCEPT !.labels[x] = s.next, !.next = NextLabel(s.next)]
     ELSE [s EXCEPT !.labels[x] = n]

\* The state at the first of the w pixels: labels cleared, the counter at 1 or,
\* after the earlier pixels of the row, at NearWrap.
InitLabels ==
  /\ w \in 1..MaxRow
  /\ h = 1
  /\ img \in [0..(w - 1) -> {0, 255}]
  /\ nblobs \in LabelCapacities
  /\ next \in {v \in {1, NearWrap} : v <= nblobs + 1}
  /\ labels = [pos \in 0..(w - 1) |-> 0]
  /\ dropped = 0
  /\ LET cs == CallerState(1, 1, 1)
     IN /\ blobs = cs.blobs
        /\ parents = cs.parents
        /\ cx = cs.cx
        /\ cy = cs.cy
        /\ m = cs.m
  /\ i = 0
  /\ ret = 0
  /\ TraceIdle
  /\ CornersIdle
  /\ FastIdle
  /\ MatchIdle
  /\ ExtIdle
  /\ pc = "lscan"

\* One iteration of the first pass whose indices are inside the arrays.
LabelScan ==
  /\ pc = "lscan"
  /\ i < w
  /\ BlobIndices(img, labels, next, nblobs, i) \subseteq 0..(nblobs - 1)
  /\ \E t \in {ScanLabel([labels |-> labels, next |-> next, dropped |-> dropped],
                          img, nblobs, i)} :
        /\ labels' = t.labels
        /\ next' = t.next
        /\ dropped' = t.dropped
  /\ i' = i + 1
  /\ pc' = IF i + 1 < w THEN "lscan" ELSE "ldone"
  /\ UNCHANGED <<extVars, w, h, img, nblobs, blobs, parents, cx, cy, m, ret, traceVars,
                 cornerVars, fastVars, matchVars>>

\* An iteration that writes blobs, cx and cy outside their nblobs cells:
\* undefined behaviour.
LabelFault ==
  /\ pc = "lscan"
  /\ i < w
  /\ ~(BlobIndices(img, labels, next, nblobs, i) \subseteq 0..(nblobs - 1))
  /\ pc' = "lfault"
  /\ UNCHANGED <<extVars, w, h, img, blobVars, i, traceVars, cornerVars, fastVars,
                 matchVars>>

NextLabels ==
  \/ LabelScan
  \/ LabelFault

SpecLabels == InitLabels /\ [][NextLabels]_vars

\* ------------------------------------------------ WASM target: image slots
\* The state of the library functions while the WASM exports run.
coreVars == <<w, h, img, blobVars, i, traceVars, cornerVars, fastVars, matchVars>>
BlobsIdle ==
  /\ nblobs = 1
  /\ LET cs == CallerState(1, 1, 1)
     IN /\ labels = cs.labels
        /\ blobs = cs.blobs
        /\ parents = cs.parents
        /\ cx = cs.cx
        /\ cy = cs.cy
        /\ next = cs.next
        /\ m = cs.m
        /\ dropped = cs.dropped
  /\ i = 0
  /\ ret = 0
CoreIdle ==
  /\ w = 1
  /\ h = 1
  /\ img = [pos \in 0..0 |-> 0]
  /\ BlobsIdle
  /\ TraceIdle
  /\ CornersIdle
  /\ FastIdle
  /\ MatchIdle

MEMORY_HEAP_SIZE == 1024 * 1024 * 8
NUM_BUFFERS == 3
\* Pointers into memory_heap are held as offsets; NULL is no offset.
NULL == -1
gs_image(ww, hh, data) == [w |-> ww, h |-> hh, data |-> data]

\* gs_alloc: the pointer returned and the new heap_ptr.
gs_alloc(hp, size) ==
  LET aligned_size == ((size + 7) \div 8) * 8
  IN IF hp + aligned_size > MEMORY_HEAP_SIZE THEN [ptr |-> NULL, heap_ptr |-> hp]
     ELSE [ptr |-> hp, heap_ptr |-> hp + aligned_size]

\* The arguments tried: slot indices in and out of range, and image sizes from
\* a few bytes to the whole heap.
SlotArgs == -1..NUM_BUFFERS
ImageSizes == {<<2, 2>>, <<3, 3>>, <<2048, 2048>>, <<4096, 2048>>}

\* Static storage: every slot {0, 0, NULL}, heap_ptr 0.
InitWasm ==
  /\ CoreIdle
  /\ dst = <<>>
  /\ pyramid = <<>>
  /\ n_levels = 0
  /\ level = 0
  /\ total_kps = 0
  /\ level_nkps = <<>>
  /\ heap_ptr = 0
  /\ images = [k \in 0..(NUM_BUFFERS - 1) |-> gs_image(0, 0, NULL)]
  /\ pc = "wasm"

\* gs_init_image(idx, w, h): allocates on first use only.
gs_init_image ==
  /\ pc = "wasm"
  /\ \E idx \in SlotArgs, sz \in ImageSizes :
        IF idx < 0 \/ idx >= NUM_BUFFERS THEN UNCHANGED <<heap_ptr, images>>
        ELSE IF images[idx].data = NULL
        THEN \E a \in {gs_alloc(heap_ptr, sz[1] * sz[2])} :
                /\ heap_ptr' = a.heap_ptr
                /\ images' = [images EXCEPT ![idx] = gs_image(sz[1], sz[2], a.ptr)]
        ELSE /\ images' = [images EXCEPT ![idx] = gs_image(sz[1], sz[2], images[idx].data)]
             /\ UNCHANGED heap_ptr
  /\ UNCHANGED <<coreVars, dst, pyramidVars, pc>>

\* gs_reset_allocator: heap_ptr = 0.
gs_reset_allocator ==
  /\ pc = "wasm"
  /\ heap_ptr' = 0
  /\ UNCHANGED <<coreVars, dst, pyramidVars, images, pc>>

NextWasm ==
  \/ gs_init_image
  \/ gs_reset_allocator

SpecWasm == InitWasm /\ [][NextWasm]_vars

\* ------------------------------------- nanomagick: extract_pyramid_orb_nm
\* gs_downsample(src, dst): whether the asserted precondition holds, and the
\* data of dst after the call when it does.
gs_downsample(src, d) ==
  [ok   |-> d.w = src.w \div 2 /\ d.h = src.h \div 2,
   data |-> [pos \in 0..(d.w * d.h - 1) |->
               LET x == pos % d.w
                   y == pos \div d.w
               IN (gs_get(src.data, src.w, src.h, 2 * x, 2 * y)
                   + gs_get(src.data, src.w, src.h, 2 * x + 1, 2 * y)
                   + gs_get(src.data, src.w, src.h, 2 * x, 2 * y + 1)
                   + gs_get(src.data, src.w, src.h, 2 * x + 1, 2 * y + 1)) \div 4]]

\* 1 << k.
RECURSIVE ShiftLeftOne(_)
ShiftLeftOne(k) == IF k = 0 THEN 1 ELSE 2 * ShiftLeftOne(k - 1)

\* gs_orb_extract on a level, as far as the pyramid code depends on it: it
\* stores at most nk keypoints (loop guard n_orb < nkps), at points that pass
\* its border test with radius 15, and returns their number.  The points
\* tried are the two corners of the region the test admits.
OrbSpots(im) ==
  {pt \in {gs_point(15, 15), gs_point(im.w - 16, im.h - 16)} :
     pt.x >= 15 /\ pt.y >= 15 /\ pt.x < im.w - 15 /\ pt.y < im.h - 15}
gs_orb_extract(im, nk) ==
  {[n |-> 0, pt |-> gs_point(0, 0)]}
    \cup {[n |-> cnt, pt |-> pt] : cnt \in 1..nk, pt \in OrbSpots(im)}

\* The images tried: below, at and above the size whose half is 32.
PyramidSizes == {<<40, 40>>, <<63, 64>>, <<64, 64>>, <<65, 66>>}
PyramidImages(ww, hh) ==
  {[pos \in 0..(ww * hh - 1) |-> 100], [pos \in 0..(ww * hh - 1) |-> (pos * 7) % 256]}

\* The arguments at the call of extract_pyramid_orb_nm.
InitPyramid ==
  /\ \E sz \in PyramidSizes : w = sz[1] /\ h = sz[2]
  /\ img \in PyramidImages(w, h)
  /\ BlobsIdle
  /\ TraceIdle
  /\ CornersIdle
  /\ MatchIdle
  /\ scoremap = <<>>
  /\ nkps \in 1..MaxPyramidKps
  /\ kps = [k \in 0..(nkps - 1) |-> StaleKeypoint]
  /\ threshold = 20
  /\ n_out = 0
  /\ dst = <<>>
  /\ pyramid = <<>>
  /\ n_levels \in 0..MaxLevelsArg
  /\ level = 0
  /\ total_kps = 0
  /\ level_nkps = <<>>
  /\ heap_ptr = 0
  /\ images = <<>>
  /\ pc = "pstart"

pyramidRest == <<w, h, img, blobVars, i, traceVars, cornerVars, scoremap, nkps, threshold,
                 n_out, matchVars, dst, wasmVars>>

\* The clamp of n_levels, total_kps = 0 and pyramid[0] = img.
PyramidStart ==
  /\ pc = "pstart"
  /\ n_levels' = IF n_levels > 4 THEN 4 ELSE n_levels
  /\ total_kps' = 0
  /\ pyramid' = [k \in 0..0 |-> gs_image(w, h, img)]
  /\ level' = 1
  /\ pc' = "pbuild"
  /\ UNCHANGED <<pyramidRest, kps, level_nkps>>

\* The loop that generates the downsampled levels, one iteration per step:
\* gs_downsample is called with pyramid[level] as src and pyramid[level - 1]
\* as dst, and gs_assert aborts when its condition fails.
PyramidBuild ==
  /\ pc = "pbuild"
  /\ IF level < n_levels
     THEN LET ww == pyramid[level - 1].w \div 2
              hh == pyramid[level - 1].h \div 2
              lv == gs_image(ww, hh, [pos \in 0..(ww * hh - 1) |-> 0])
              r == gs_downsample(lv, pyramid[level - 1])
          IN IF ww < 32 \/ hh < 32
             THEN /\ n_levels' = level
                  /\ level' = 0
                  /\ pc' = "pextract"
                  /\ UNCHANGED pyramid
             ELSE IF ~r.ok
             THEN /\ pyramid' = [k \in 0..level |-> IF k = level THEN lv ELSE pyramid[k]]
                  /\ pc' = "pabort"
                  /\ UNCHANGED <<n_levels, level>>
             ELSE /\ pyramid' = [k \in 0..level |->
                                   IF k = level THEN lv
                                   ELSE IF k = level - 1
                                   THEN gs_image(pyramid[k].w, pyramid[k].h, r.data)
                                   ELSE pyramid[k]]
                  /\ level' = level + 1
                  /\ UNCHANGED <<n_levels, pc>>
     ELSE /\ level' = 0
          /\ pc' = "pextract"
          /\ UNCHANGED <<pyramid, n_levels>>
  /\ UNCHANGED <<pyramidRest, kps, total_kps, level_nkps>>

\* One iteration of the loop that extracts features from each level.
PyramidExtract ==
  /\ pc = "pextract"
  /\ level < n_levels
  /\ LET cap == IF level = n_levels - 1 THEN nkps - total_kps ELSE nkps \div n_levels
     IN /\ level_nkps' = [k \in 0..level |-> IF k = level THEN cap ELSE level_nkps[k]]
        /\ IF cap = 0 THEN UNCHANGED <<kps, total_kps>>
           ELSE \E r \in gs_orb_extract(pyramid[level], cap) :
                  /\ kps' = [k \in DOMAIN kps |->
                               IF k >= total_kps /\ k < total_kps + r.n
                               THEN gs_keypoint(gs_point(r.pt.x * ShiftLeftOne(level),
                                                         r.pt.y * ShiftLeftOne(level)),
                                                1, 0, zero_descriptor)
                               ELSE kps[k]]
                  /\ total_kps' = total_kps + r.n
  /\ level' = level + 1
  /\ UNCHANGED <<pyramidRest, pyramid, n_levels, pc>>

\* return total_kps.
PyramidReturn ==
  /\ pc = "pextract"
  /\ level >= n_levels
  /\ ret' = total_kps
  /\ pc' = "pdone"
  /\ UNCHANGED <<w, h, img, nblobs, labels, blobs, parents, cx, cy, next, m, dropped, i,
                 traceVars, cornerVars, fastVars, matchVars, extVars>>

NextPyramid ==
  \/ PyramidStart
  \/ PyramidBuild
  \/ PyramidExtract
  \/ PyramidReturn

SpecPyramid == InitPyramid /\ [][NextPyramid]_vars

\* ------------------------------------------------------------ float arithmetic
\* A float is held as sign s, mantissa m and exponent e with value
\* (-1)^s * m * 2^e, where m = 0 (zero) or 2^23 <= m < 2^24.  Every operation
\* rounds its exact result to the nearest such value, ties to even, as IEEE 754
\* single precision does; the values met are far from overflow and underflow.
Two23 == 8388608
Two24 == 16777216
f32(s, mm, e) == [s |-> s, m |-> mm, e |-> e]
F32Zero == f32(0, 0, 0)

\* The float nearest to (-1)^s * (x + f) * 2^e, where 0 <= f < 1 and f # 0 iff
\* sticky.  The operations call it with f = 0 whenever x < 2^24.
RECURSIVE F32Round(_, _, _, _)
F32Round(s, x, e, sticky) ==
  IF x = 0 THEN F32Zero
  ELSE IF x < Two23 THEN F32Round(s, 2 * x, e - 1, sticky)
  ELSE IF x < Two24 THEN f32(s, x, e)
  ELSE LET k == CHOOSE k \in 1..7 : x \div ShiftLeftOne(k) < Two24
                                    /\ x \div ShiftLeftOne(k - 1) >= Two24
           q == x \div ShiftLeftOne(k)
           r == x % ShiftLeftOne(k)
           half == ShiftLeftOne(k - 1)
           up == r > half \/ (r = half /\ (sticky \/ q % 2 = 1))
           m1 == IF up THEN q + 1 ELSE q
       IN IF m1 = Two24 THEN f32(s, Two23, e + k + 1) ELSE f32(s, m1, e + k)

\* (float)n for an integer n with |n| < 2^24.
F32FromInt(n) == IF n < 0 THEN F32Round(1, -n, 0, FALSE) ELSE F32Round(0, n, 0, FALSE)

F32Neg(a) == IF a.m = 0 THEN a ELSE f32(1 - a.s, a.m, a.e)

\* a * b: the 48-bit product of the mantissas from 12-bit halves.
F32Mul(a, b) ==
  IF a.m = 0 \/ b.m = 0 THEN F32Zero
  ELSE LET a1 == a.m \div 4096
           a0 == a.m % 4096
           b1 == b.m \div 4096
           b0 == b.m % 4096
           mid == a1 * b0 + a0 * b1
           lo24 == (mid % 4096) * 4096 + a0 * b0
           hi == a1 * b1 + (mid \div 4096) + (lo24 \div Two24)
           lo == lo24 % Two24
       IN F32Round((a.s + b.s) % 2, hi * 128 + (lo \div 131072), a.e + b.e + 17,
                   lo % 131072 # 0)

\* Long division: k more quotient bits of r / d after the bits q.
RECURSIVE DivideBits(_, _, _, _)
DivideBits(r, d, q, k) ==
  IF k = 0 THEN [q |-> q, r |-> r]
  ELSE IF r >= d THEN DivideBits(2 * (r - d), d, 2 * q + 1, k - 1)
  ELSE DivideBits(2 * r, d, 2 * q, k - 1)

\* a / b for b # 0: 27 quotient bits and the remainder as sticky.
F32Div(a, b) ==
  IF a.m = 0 THEN F32Zero
  ELSE LET t == DivideBits(a.m, b.m, 0, 27)
       IN F32Round((a.s + b.s) % 2, t.q, a.e - b.e - 26, t.r # 0)

\* |a| < |b|.
F32MagLess(a, b) ==
  IF b.m = 0 THEN FALSE
  ELSE IF a.m = 0 THEN TRUE
  ELSE a.e < b.e \/ (a.e = b.e /\ a.m < b.m)

\* a + b: the smaller operand is shifted to the exponent of the larger, with
\* six guard bits and a sticky bit.
F32Add(a, b) ==
  IF a.m = 0 THEN b
  ELSE IF b.m = 0 THEN a
  ELSE LET big == IF F32MagLess(a, b) THEN b ELSE a
           small == IF F32MagLess(a, b) THEN a ELSE b
           d == big.e - small.e
           xb == big.m * 64
           xs == IF d >= 31 THEN 0 ELSE (small.m * 64) \div ShiftLeftOne(d)
           sticky == IF d >= 31 THEN TRUE ELSE (small.m * 64) % ShiftLeftOne(d) # 0
       IN IF big.s = small.s THEN F32Round(big.s, xb + xs, big.e - 6, sticky)
          ELSE F32Round(big.s, xb - xs - (IF sticky THEN 1 ELSE 0), big.e - 6, sticky)

F32Sub(a, b) == F32Add(a, F32Neg(b))

\* a < b.
F32Less(a, b) ==
  LET an == a.m # 0 /\ a.s = 1
      bn == b.m # 0 /\ b.s = 1
  IN IF an /\ ~bn THEN TRUE
     ELSE IF ~an /\ bn THEN FALSE
     ELSE IF an THEN F32MagLess(b, a)
     ELSE F32MagLess(a, b)

\* (unsigned)a and (uint8_t)a for a float a >= 0 within range: truncation.
F32Trunc(a) ==
  IF a.m = 0 THEN 0
  ELSE IF a.e >= 0 THEN a.m * ShiftLeftOne(a.e)
  ELSE IF a.e <= -24 THEN 0
  ELSE a.m \div ShiftLeftOne(-a.e)

\* ------------------------------------------------------- gs_otsu_threshold
\* gs_histogram: hist[v] is the number of pixels of value v.
gs_histogram(im, ww, hh) ==
  [v \in 0..255 |-> Cardinality({pos \in 0..(ww * hh - 1) : im[pos] = v})]

\* The grey levels that occur, and the first of them from t on (256 if none).
\* An iteration of either loop for a level that does not occur changes
\* nothing: it adds 0 to sum, and it recomputes the varBetween of the last
\* level that occurs, which is not above varMax.  The loops are followed from
\* one occurring level to the next.
Occurring(hist) == {v \in 0..255 : hist[v] > 0}
NextOccurring(hist, t) ==
  IF \E v \in Occurring(hist) : v >= t
  THEN CHOOSE v \in Occurring(hist) : v >= t /\ \A u \in Occurring(hist) : u >= t => v <= u
  ELSE 256

\* sum after the iterations i = 0..k of "sum += (float)i * hist[i]".
RECURSIVE HistSum(_, _)
HistSum(hist, k) ==
  LET below == {v \in Occurring(hist) : v <= k}
      top == CHOOSE v \in below : \A u \in below : u <= v
  IN IF below = {} THEN F32Zero
     ELSE F32Add(HistSum(hist, top - 1), F32Mul(F32FromInt(top), F32FromInt(hist[top])))

\* varBetween > varMax.
Improves(varBetween, varMax) == F32Less(varMax, varBetween)

\* The loop over t from t on; st holds wb, sumB, varMax and threshold.
RECURSIVE OtsuFrom(_, _, _, _, _)
OtsuFrom(hist, total, sum, t, st) ==
  IF t >= 256 THEN st.threshold
  ELSE IF hist[t] = 0 THEN OtsuFrom(hist, total, sum, NextOccurring(hist, t), st)
  ELSE LET wb == st.wb + hist[t]
           wf == total - wb
       IN IF wb = 0 THEN OtsuFrom(hist, total, sum, t + 1, st)
          ELSE IF wf = 0 THEN st.threshold
          ELSE LET sumB == F32Add(st.sumB, F32Mul(F32FromInt(t), F32FromInt(hist[t])))
                   mB == F32Div(sumB, F32FromInt(wb))
                   mF == F32Div(F32Sub(sum, sumB), F32FromInt(wf))
                   diff == F32Sub(mB, mF)
                   varBetween == F32Mul(F32Mul(F32Mul(F32FromInt(wb), F32FromInt(wf)), diff),
                                        diff)
               IN IF Improves(varBetween, st.varMax)
                  THEN OtsuFrom(hist, total, sum, t + 1,
                                [wb |-> wb, sumB |-> sumB, varMax |-> varBetween,
                                 threshold |-> t])
                  ELSE OtsuFrom(hist, total, sum, t + 1,
                                [wb |-> wb, sumB |-> sumB, varMax |-> st.varMax,
                                 threshold |-> st.threshold])

gs_otsu_threshold(im, ww, hh) ==
  LET hist == gs_histogram(im, ww, hh)
  IN OtsuFrom(hist, ww * hh, HistSum(hist, 255), 0,
              [wb |-> 0, sumB |-> F32Zero, varMax |-> F32FromInt(-1), threshold |-> 0])

\* The images tried: every image of these sizes over these grey levels, and
\* the 3x3 image of the library's own test.
OtsuSizes == {<<1, 1>>, <<2, 1>>, <<3, 1>>, <<2, 2>>}
OtsuLevels == {0, 1, 2, 3, 128, 255}
OtsuSample == [pos \in 0..8 |-> <<40, 50, 60, 45, 55, 50, 190, 200, 210>>[pos + 1]]

InitOtsu ==
  /\ \/ /\ \E sz \in OtsuSizes : w = sz[1] /\ h = sz[2]
        /\ img \in [0..(w * h - 1) -> OtsuLevels]
     \/ /\ w = 3 /\ h = 3
        /\ img = OtsuSample
  /\ BlobsIdle
  /\ TraceIdle
  /\ CornersIdle
  /\ FastIdle
  /\ MatchIdle
  /\ ExtIdle
  /\ pc = "ostart"

\* The call of gs_otsu_threshold and its return value.
OtsuCall ==
  /\ pc = "ostart"
  /\ ret' = gs_otsu_threshold(img, w, h)
  /\ pc' = "odone"
  /\ UNCHANGED <<extVars, w, h, img, nblobs, labels, blobs, parents, cx, cy, next, m,
                 dropped, i, traceVars, cornerVars, fastVars, matchVars>>

NextOtsu == OtsuCall

SpecOtsu == InitOtsu /\ [][NextOtsu]_vars

\* ------------------------------------- gs_resize, gs_perspective_correct
F32Half == f32(0, Two23, -24)
F32One == F32FromInt(1)
\* GS_MIN and GS_MAX on floats.
F32Min(a, b) == IF F32Less(a, b) THEN a ELSE b
F32Max(a, b) == IF F32Less(b, a) THEN a ELSE b

\* The part the two functions share: the source coordinate clamped to the
\* image, and the bilinear blend of the four pixels around it.
Clamp(v, size) == F32Max(F32Zero, F32Min(v, F32Sub(F32FromInt(size), F32One)))
Bilinear(src, sxf, syf) ==
  LET sx == Clamp(sxf, src.w)
      sy == Clamp(syf, src.h)
      sx_int == F32Trunc(sx)
      sy_int == F32Trunc(sy)
      sx1 == GS_MIN(sx_int + 1, src.w - 1)
      sy1 == GS_MIN(sy_int + 1, src.h - 1)
      ddx == F32Sub(sx, F32FromInt(sx_int))
      ddy == F32Sub(sy, F32FromInt(sy_int))
      c00 == F32FromInt(src.data[sy_int * src.w + sx_int])
      c01 == F32FromInt(src.data[sy_int * src.w + sx1])
      c10 == F32FromInt(src.data[sy1 * src.w + sx_int])
      c11 == F32FromInt(src.data[sy1 * src.w + sx1])
      ndx == F32Sub(F32One, ddx)
      ndy == F32Sub(F32One, ddy)
  IN F32Trunc(F32Add(F32Add(F32Add(F32Mul(F32Mul(c00, ndx), ndy),
                                   F32Mul(F32Mul(c01, ddx), ndy)),
                            F32Mul(F32Mul(c10, ndx), ddy)),
                     F32Mul(F32Mul(c11, ddx), ddy)))

\* gs_resize: the data of dst after the call.
gs_resize(d, src) ==
  [pos \in 0..(d.w * d.h - 1) |->
     LET x == pos % d.w
         y == pos \div d.w
         sx == F32Sub(F32Div(F32Mul(F32Add(F32FromInt(x), F32Half), F32FromInt(src.w)),
                             F32FromInt(d.w)), F32Half)
         sy == F32Sub(F32Div(F32Mul(F32Add(F32FromInt(y), F32Half), F32FromInt(src.h)),
                             F32FromInt(d.h)), F32Half)
     IN Bilinear(src, sx, sy)]

\* a * (1 - t) + b * t for unsigned a and b.
Lerp(a, b, t) ==
  F32Add(F32Mul(a, F32Sub(F32One, t)), F32Mul(b, t))

\* src_x and src_y of gs_perspective_correct for the pixel (x, y) of dst; the
\* destination is at least 2 by 2 (dst.w - 1.0f and dst.h - 1.0f are not 0).
PerspectivePoint(d, src, q, x, y) ==
  LET u == F32Div(F32FromInt(x), F32Sub(F32FromInt(d.w), F32One))
      v == F32Div(F32FromInt(y), F32Sub(F32FromInt(d.h), F32One))
      top_x == Lerp(F32FromInt(q[0].x), F32FromInt(q[1].x), u)
      top_y == Lerp(F32FromInt(q[0].y), F32FromInt(q[1].y), u)
      bot_x == Lerp(F32FromInt(q[3].x), F32FromInt(q[2].x), u)
      bot_y == Lerp(F32FromInt(q[3].y), F32FromInt(q[2].y), u)
  IN [x |-> Lerp(top_x, bot_x, v), y |-> Lerp(top_y, bot_y, v)]

\* gs_perspective_correct: the data of dst after the call.
gs_perspective_correct(d, src, q) ==
  [pos \in 0..(d.w * d.h - 1) |->
     LET pt == PerspectivePoint(d, src, q, pos % d.w, pos \div d.w)
     IN Bilinear(src, pt.x, pt.y)]

\* The quad of the four corners of a ww-by-hh image.
IdentityQuad(ww, hh) ==
  [k \in 0..3 |-> gs_point(IF k \in {1, 2} THEN ww - 1 ELSE 0,
                            IF k \in {2, 3} THEN hh - 1 ELSE 0)]
ResampleLevels == {<<0, 255>>, <<10, 200>>}

\* The source image, the destination buffer and the quad at the call.
InitResample ==
  /\ w \in 1..MaxSrcW
  /\ h \in 1..MaxSrcH
  /\ img \in Images(w, h, ResampleLevels)
  /\ BlobsIdle
  /\ TraceIdle
  /\ blob = gs_blob(0, 0, gs_rect(0, 0, 0, 0), gs_point(0, 0))
  /\ corners = IdentityQuad(w, h)
  /\ FastIdle
  /\ MatchIdle
  /\ \E dw \in 2..MaxDstW, dh \in 2..MaxDstH :
        dst = gs_image(dw, dh, [pos \in 0..(dw * dh - 1) |-> Stale])
  /\ pyramid = <<>>
  /\ n_levels = 0
  /\ level = 0
  /\ total_kps = 0
  /\ level_nkps = <<>>
  /\ heap_ptr = 0
  /\ images = <<>>
  /\ pc = "rstart"

ResizeCall ==
  /\ pc = "rstart"
  /\ dst' = gs_image(dst.w, dst.h, gs_resize(dst, gs_image(w, h, img)))
  /\ pc' = "resized"
  /\ UNCHANGED <<coreVars, pyramidVars, wasmVars>>

PerspectiveCall ==
  /\ pc = "rstart"
  /\ dst' = gs_image(dst.w, dst.h, gs_perspective_correct(dst, gs_image(w, h, img), corners))
  /\ pc' = "corrected"
  /\ UNCHANGED <<coreVars, pyramidVars, wasmVars>>

NextResample ==
  \/ ResizeCall
  \/ PerspectiveCall

SpecResample == InitResample /\ [][NextResample]_vars

\* ------------------------------------------------------ gs_blobs: properties
Pixels == 0..(w * h - 1)
XOf(pos) == pos % w
YOf(pos) == pos \div w
Abs(a) == IF a < 0 THEN -a ELSE a

\* The pixels gs_blobs scans as foreground: intensity 128 and above.
BlobForeground == {pos \in Pixels : img[pos] >= 128}

\* The scan of gs_blobs: from the cleared tables to the end of the first pass.
Scanning == pc \in {"scan", "merge"}
\* The provisional labels handed out so far.
Provisional == 1..(next - 1)
\* The end of the parent chain from k.
RECURSIVE ChainEnd(_)
ChainEnd(k) == IF parents[k] = k THEN k ELSE ChainEnd(parents[k])

\* C26: at every point of the scan parents[k] <= k for every label k, so the
\* parent chain from a label strictly decreases to a root, gs_root terminates
\* with that root, and the root of a class is its smallest provisional label.
C26_ParentsDecrease ==
  Scanning =>
    /\ \A k \in 0..nblobs : parents[k] <= k
    /\ \A k \in Provisional :
          /\ gs_root(k, parents).root = ChainEnd(k)
          /\ \A j \in Provisional : ChainEnd(j) = ChainEnd(k) => ChainEnd(k) <= j

\* A point of the scan where a label hangs two links below its root.
C26_Witness ==
  /\ pc = "scan"
  /\ \E k \in Provisional : parents[k] < k /\ parents[parents[k]] < parents[k]

\* Left/right/up/down neighbours.
Adjacent4(a, b) ==
  \/ YOf(a) = YOf(b) /\ Abs(XOf(a) - XOf(b)) = 1
  \/ XOf(a) = XOf(b) /\ Abs(YOf(a) - YOf(b)) = 1

\* The pixels of F joined to a pixel of S by a 4-connected path inside F
\* (S is what was reached already, New what was reached last).
RECURSIVE Reach(_, _, _)
Reach(S, New, F) ==
  LET N2 == {q \in F \ S : \E r \in New : Adjacent4(q, r)}
  IN IF N2 = {} THEN S ELSE Reach(S \cup N2, N2, F)

\* The 4-connected components of the pixel set F.
RECURSIVE ComponentsOf(_)
ComponentsOf(F) ==
  IF F = {} THEN {}
  ELSE LET a == CHOOSE a \in F : \A b \in F : a <= b
           C == Reach({a}, {a}, F)
       IN {C} \cup ComponentsOf(F \ C)

\* The blobs gs_blobs returned, and the cells that hold a given label.
Returned == {blobs[k] : k \in 0..(ret - 1)}
CellsOf(l) == {pos \in Pixels : labels[pos] = l}
Labelled == {pos \in Pixels : labels[pos] # 0}

RECURSIVE SumAreas(_)
SumAreas(k) == IF k = 0 THEN 0 ELSE blobs[k - 1].area + SumAreas(k - 1)

\* C1: with enough labels that no pixel is dropped, gs_blobs labels exactly the
\* 4-connected components: background cells hold 0, foreground cells a non-zero
\* label, two foreground cells hold the same label iff a left/right/up/down path
\* of foreground joins them, and the returned count is the number of components.
C1_LabelsAreComponents ==
  (pc = "done" /\ dropped = 0) =>
    /\ \A pos \in Pixels : (labels[pos] # 0) <=> (pos \in BlobForeground)
    /\ {CellsOf(labels[a]) : a \in BlobForeground} = ComponentsOf(BlobForeground)
    /\ ret = Cardinality(ComponentsOf(BlobForeground))

\* A run in which three provisional labels end up in one component through a
\* chain of two unions (3 under 2, then 2 under 1), next to a second component.
C1_Witness ==
  /\ pc = "done" /\ dropped = 0
  /\ w = 4 /\ h = 3
  /\ BlobForeground = {0, 3, 4, 6, 7, 8, 9, 10}
  /\ labels[6] = 1
  /\ ret = 1

\* The image read column by column: the transpose has width hh and height ww.
Transpose(im, ww, hh) ==
  [q \in 0..(ww * hh - 1) |-> im[(q % hh) * ww + (q \div hh)]]

\* The cell of the w-by-h image that cell q of its transpose shows.
Untransposed(q) == (q % h) * w + (q \div h)

\* The sets of cells that share a non-zero label.
Groups(lab) ==
  {{pos \in DOMAIN lab : lab[pos] = l} : l \in {lab[pos] : pos \in DOMAIN lab} \ {0}}

\* gs_blobs run on the transpose of the image, same capacity.
TransposedRun == GsBlobs(Transpose(img, w, h), h, w, nblobs)

SameGroupsAsTranspose ==
  Groups(labels) = {{Untransposed(q) : q \in G} : G \in Groups(TransposedRun.labels)}

\* C2 (as stated): for every image and every nblobs > 0, gs_blobs groups the
\* pixels of the image and of its transpose into the same sets.
C2_TransposeSameGroups_AnyCapacity ==
  pc = "done" => SameGroupsAsTranspose

\* C2 (amended): when neither of the two runs drops a pixel for lack of labels,
\* gs_blobs groups the pixels of the image and of its transpose into the same
\* sets; only the label values may differ.
C2_TransposeSameGroups ==
  (pc = "done" /\ dropped = 0 /\ TransposedRun.dropped = 0) => SameGroupsAsTranspose

\* A non-square image with a merged component and labels that differ between
\* the two scan orders.
C2_Witness ==
  /\ pc = "done" /\ dropped = 0 /\ TransposedRun.dropped = 0
  /\ w # h /\ ret >= 2 /\ next > ret + 1
  /\ \E pos \in Pixels : labels[pos] # 0 /\
        \E q \in Pixels : Untransposed(q) = pos /\ TransposedRun.labels[q] # labels[pos]

\* C3 (as stated): the returned blobs carry the labels 1..N in output order and
\* every non-zero cell of the label grid holds a value in 1..N.
C3_LabelsDense ==
  pc = "done" =>
    /\ \A k \in 0..(ret - 1) : blobs[k].label = k + 1
    /\ \A pos \in Pixels : labels[pos] \in 0..ret

\* C3 (amended): the returned blobs carry strictly increasing labels taken from
\* the provisional labels 1..next-1 (the k-th label is at least k, and may be
\* larger than N), and the non-zero values of the label grid are exactly the
\* labels of the returned blobs.
C3_LabelsIncreasing ==
  pc = "done" =>
    /\ \A k \in 0..(ret - 1) : blobs[k].label \in (k + 1)..(next - 1)
    /\ \A j, k \in 0..(ret - 1) : j < k => blobs[j].label < blobs[k].label
    /\ {labels[pos] : pos \in Labelled} = {blobs[k].label : k \in 0..(ret - 1)}

\* Two blobs returned, the second with a label above the count.
C3_Witness ==
  /\ pc = "done"
  /\ ret = 2
  /\ blobs[1].label = 3
  /\ \E pos \in Pixels : labels[pos] = 3

\* C4: each returned blob's area is the number of cells holding its label, the
\* areas add up to the number of non-zero cells, and to the number of
\* foreground pixels when no pixel was dropped.
C4_AreaIsCellCount ==
  pc = "done" =>
    /\ \A k \in 0..(ret - 1) : blobs[k].area = Cardinality(CellsOf(blobs[k].label))
    /\ SumAreas(ret) = Cardinality(Labelled)
    /\ dropped = 0 => SumAreas(ret) = Cardinality(BlobForeground)

\* A run with merged labels and dropped pixels.
C4_Witness ==
  /\ pc = "done"
  /\ dropped > 0
  /\ ret >= 2
  /\ next > ret + 1
  /\ \E k \in 0..(ret - 1) : blobs[k].area >= 4

RECURSIVE SumX(_)
SumX(S) == IF S = {} THEN 0
           ELSE LET e == CHOOSE e \in S : TRUE IN XOf(e) + SumX(S \ {e})
RECURSIVE SumY(_)
SumY(S) == IF S = {} THEN 0
           ELSE LET e == CHOOSE e \in S : TRUE IN YOf(e) + SumY(S \ {e})

MinOf(S) == CHOOSE a \in S : \A b \in S : a <= b
MaxOf(S) == CHOOSE a \in S : \A b \in S : a >= b

\* The tightest rectangle around the cells S and the floor of their mean.
TightBox(S) ==
  LET xs == {XOf(e) : e \in S}
      ys == {YOf(e) : e \in S}
  IN gs_rect(MinOf(xs), MinOf(ys), MaxOf(xs) - MinOf(xs) + 1, MaxOf(ys) - MinOf(ys) + 1)
FloorMean(S) == gs_point(SumX(S) \div Cardinality(S), SumY(S) \div Cardinality(S))

\* C5: every returned blob's box is the tightest rectangle around the cells
\* holding its label (w > 0, h > 0) and its centroid is the floor of their mean
\* position, also for blobs merged from several provisional labels.
C5_BoxAndCentroid ==
  pc = "done" =>
    \A k \in 0..(ret - 1) :
      LET cells == CellsOf(blobs[k].label)
      IN /\ cells # {}
         /\ blobs[k].box = TightBox(cells)
         /\ blobs[k].box.w > 0 /\ blobs[k].box.h > 0
         /\ blobs[k].centroid = FloorMean(cells)

\* The U-shaped blob of the 3x2 image (#.#)/(###), merged from two provisional
\* labels: its box is the whole image and its centroid is (1, 0).
C5_Witness ==
  /\ pc = "done"
  /\ w = 3 /\ h = 2
  /\ BlobForeground = {0, 2, 3, 4, 5}
  /\ next = 3 /\ ret = 1
  /\ blobs[0].box = gs_rect(0, 0, 3, 2)
  /\ blobs[0].area = 5
  /\ blobs[0].centroid = gs_point(1, 0)

\* The cells of the solid k-by-k square with top-left corner (x0, y0).
Square(x0, y0, k) ==
  {pos \in Pixels : XOf(pos) \in x0..(x0 + k - 1) /\ YOf(pos) \in y0..(y0 + k - 1)}

\* C6: a solid k-by-k foreground square at (x0, y0) on a background image gives,
\* for every nblobs >= 1, exactly one blob of area k*k, box (x0, y0, k, k) and
\* centroid (x0 + (k-1) div 2, y0 + (k-1) div 2).
C6_SolidSquare ==
  pc = "done" =>
    \A k \in 1..GS_MIN(w, h) : \A x0 \in 0..(w - k) : \A y0 \in 0..(h - k) :
      BlobForeground = Square(x0, y0, k) =>
        /\ ret = 1
        /\ blobs[0].area = k * k
        /\ blobs[0].box = gs_rect(x0, y0, k, k)
        /\ blobs[0].centroid = gs_point(x0 + (k - 1) \div 2, y0 + (k - 1) \div 2)

\* A 2-by-2 square away from the origin, labelled with a single label available.
C6_Witness ==
  /\ pc = "done"
  /\ nblobs = 1
  /\ w = 3 /\ h = 3
  /\ BlobForeground = Square(1, 1, 2)
  /\ ret = 1

C8_ForegroundAbove128 ==
  pc = "done" =>
    /\ \A pos \in Pixels : img[pos] = 128 => labels[pos] = 0
    /\ dropped = 0 => \A pos \in Pixels : (labels[pos] # 0) <=> (img[pos] > 128)

\* ------------------------------------------------ gs_blob_corners: properties
PointOf(pos) == gs_point(XOf(pos), YOf(pos))
\* The first cell in raster order among those of S minimising key.
FirstMin(S, key(_)) == PointOf(MinOf({e \in S : \A f \in S : key(e) <= key(f)}))
SumKey(pos) == XOf(pos) + YOf(pos)
DiffKey(pos) == XOf(pos) - YOf(pos)
NegSumKey(pos) == 0 - SumKey(pos)
NegDiffKey(pos) == 0 - DiffKey(pos)

\* C20: for a blob of gs_blobs' result, the four corners are pixels of the
\* blob: c[0] minimises and c[2] maximises x+y, c[3] minimises and c[1]
\* maximises x-y over the cells holding the blob's label, the first such cell
\* in raster order winning ties; when no cell holds the label the four points
\* are the blob's centroid.
C20_CornersAreExtremal ==
  pc = "corners" =>
    LET cells == CellsOf(blob.label)
    IN IF cells = {}
       THEN \A k \in 0..3 : corners[k] = blob.centroid
       ELSE /\ corners[0] = FirstMin(cells, SumKey)
            /\ corners[2] = FirstMin(cells, NegSumKey)
            /\ corners[3] = FirstMin(cells, DiffKey)
            /\ corners[1] = FirstMin(cells, NegDiffKey)
            /\ \A k \in 0..3 : corners[k].y * w + corners[k].x \in cells

\* A returned blob with two cells on its smallest anti-diagonal and four
\* different corners.
C20_Witness ==
  /\ pc = "corners"
  /\ blob \in Returned
  /\ Cardinality({corners[k] : k \in 0..3}) = 4
  /\ \E e, f \in CellsOf(blob.label) :
        /\ e # f
        /\ SumKey(e) = SumKey(f)
        /\ \A g \in CellsOf(blob.label) : SumKey(e) <= SumKey(g)


\* ---------------------------------------------- gs_trace_contour: properties
TraceForeground == {pos \in Pixels : img[pos] > 128}
StartCell == c.start.y * w + c.start.x
Neighbours8(pos) ==
  {q \in Pixels : q # pos /\ Abs(XOf(q) - XOf(pos)) <= 1 /\ Abs(YOf(q) - YOf(pos)) <= 1}
OnImageEdge(pos) ==
  XOf(pos) = 0 \/ YOf(pos) = 0 \/ XOf(pos) = w - 1 \/ YOf(pos) = h - 1

\* The start point is a foreground pixel with a background 8-neighbour or on
\* the image edge.
StartOnBorder ==
  /\ StartCell \in TraceForeground
  /\ \/ OnImageEdge(StartCell)
     \/ \E q \in Neighbours8(StartCell) : q \notin TraceForeground

\* The start point is a background pixel, or a foreground pixel whose 8
\* neighbours are all foreground.
StartOffBorder ==
  \/ StartCell \notin TraceForeground
  \/ /\ ~OnImageEdge(StartCell)
     /\ Neighbours8(StartCell) \subseteq TraceForeground

Returned_Trace == pc \in {"open", "closed"}

\* C9: from a start point on a foreground/background border or on the image
\* edge, gs_trace_contour terminates: the walk ends at a pixel without a
\* foreground 8-neighbour or on stepping onto the start point a second time.
C9_TraceTerminates ==
  (pc = "tstart" /\ StartOnBorder) ~> Returned_Trace

\* C10: from a start point that is not on a foreground/background border,
\* gs_trace_contour returns with contour length 0.
C10_OffBorderLengthZero ==
  (Returned_Trace /\ StartOffBorder) => c.length = 0


\* The cells of the visited buffer that hold 255.
Marked == {pos \in Pixels : visited[pos] = 255}

\* C11: with a zero-cleared visited buffer, when gs_trace_contour returns the
\* contour length is the number of visited cells set to 255, and every other
\* cell is still 0: each pixel the walk stood on is counted once.
C11_LengthCountsMarked ==
  Returned_Trace =>
    /\ c.length = Cardinality(Marked)
    /\ \A pos \in Pixels : visited[pos] \in {0, 255}
    /\ StartCell \in Marked

\* A closed walk that came back to pixels it had already counted.
C11_Witness ==
  /\ pc = "closed"
  /\ c.length = 3
  /\ Cardinality(TraceForeground) >= 4

\* C12: from a foreground start point, when gs_trace_contour returns the
\* contour box is the tightest rectangle around the pixels marked visited.
C12_BoxIsTight ==
  (Returned_Trace /\ StartCell \in TraceForeground) => c.box = TightBox(Marked)

\* The cells of the rw-by-rh rectangle with top-left corner (x0, y0).
RectCells(x0, y0, rw, rh) ==
  {pos \in Pixels : XOf(pos) \in x0..(x0 + rw - 1) /\ YOf(pos) \in y0..(y0 + rh - 1)}

\* The foreground is one filled rectangle and the start point is on its border.
IsFilledRect ==
  /\ TraceForeground # {}
  /\ TraceForeground = RectCells(TightBox(TraceForeground).x, TightBox(TraceForeground).y,
                                 TightBox(TraceForeground).w, TightBox(TraceForeground).h)
  /\ StartCell \in TraceForeground
  /\ LET r == TightBox(TraceForeground)
     IN \/ c.start.x \in {r.x, r.x + r.w - 1}
        \/ c.start.y \in {r.y, r.y + r.h - 1}

\* C13: on a filled rectangle, from a start point on its border, the trace
\* that returns has ended on the second visit of the start point and its box
\* is the rectangle.
C13_RectClosed ==
  (Returned_Trace /\ IsFilledRect) =>
    (pc = "closed" /\ c.box = TightBox(TraceForeground))

\* ------------------------------------- gs_hamming_distance, gs_match_orb: properties
\* The number of bit positions in which two descriptors differ.
RECURSIVE DifferingFrom(_, _, _)
DifferingFrom(a, c2, k) ==
  IF k >= 8 THEN 0
  ELSE Cardinality((a[k] \ c2[k]) \cup (c2[k] \ a[k])) + DifferingFrom(a, c2, k + 1)
DifferingBits(a, c2) == DifferingFrom(a, c2, 0)

\* C18: gs_hamming_distance(a, b) is the number of bit positions in which a and
\* b differ; it lies in 0..256, is 0 for a descriptor and itself and is the
\* same in both argument orders.
C18_HammingIsBitCount ==
  pc = "hdone" =>
    LET a == kps1[0].descriptor
        c2 == kps2[0].descriptor
    IN /\ dist = DifferingBits(a, c2)
       /\ dist \in 0..256
       /\ dist = gs_hamming_distance(c2, a, 0)
       /\ gs_hamming_distance(a, a, 0) = 0
       /\ a = c2 => dist = 0

\* Two descriptors that differ in every bit but three, bit 31 of a word among
\* the bits that agree.
C18_Witness ==
  /\ pc = "hdone"
  /\ dist = 253
  /\ \E k \in 0..7 : 31 \in kps1[0].descriptor[k] /\ 31 \in kps2[0].descriptor[k]

\* The Hamming distances from set-1 keypoint q to the set-2 keypoints, by
\* set-2 index.
Row(q) == [j \in 0..(n2 - 1) |-> DifferingBits(kps1[q].descriptor, kps2[j].descriptor)]
\* max_distance + 1 in place of a value that is missing or not below it.
Capped(S) == IF S = {} THEN max_distance + 1
             ELSE GS_MIN(MinOf(S), max_distance + 1)
\* Of a row r of distances: the smallest, the lowest index attaining the
\* smallest, and the second smallest with duplicates counted.
Smallest(r) == Capped({r[j] : j \in DOMAIN r})
LowestAt(r, d) == MinOf({j \in DOMAIN r : r[j] = d})
SecondSmallest(r) ==
  IF DOMAIN r = {} THEN max_distance + 1
  ELSE LET lo == MinOf({r[j] : j \in DOMAIN r})
       IN Capped({r[j] : j \in DOMAIN r \ {LowestAt(r, lo)}})
D1(q) == Smallest(Row(q))
D2(q) == SecondSmallest(Row(q))
FirstBest(q) == LowestAt(Row(q), D1(q))
\* d1 <= max_distance and d1 < 0.8 * d2.
AcceptableRow(r) ==
  LET d1 == Smallest(r)
  IN d1 <= max_distance /\ 5 * d1 < 4 * SecondSmallest(r)
Acceptable(q) == AcceptableRow(Row(q))
Written == 0..(n_out - 1)
Emitted(q) == \E k \in Written : matches[k].idx1 = q
InMatch == pc \in {"match", "mdone"}

\* C16: a set-1 keypoint that has been processed has a match exactly when
\* d1 <= max_distance and d1 < 0.8 * d2, and its match carries the distance d1
\* and the lowest set-2 index at which d1 is attained.
C16_RatioTest ==
  InMatch =>
    \A q \in 0..(i - 1) :
      LET r == Row(q)
          d1 == Smallest(r)
      IN /\ Emitted(q) <=> AcceptableRow(r)
         /\ \A k \in Written : matches[k].idx1 = q =>
               /\ matches[k].distance = d1
               /\ matches[k].idx2 = LowestAt(r, d1)

\* One keypoint rejected on the boundary of the ratio test (d1 = 4, d2 = 5) and
\* one accepted whose best is found after a worse candidate and before a
\* runner-up.
C16_Witness ==
  /\ pc = "mdone"
  /\ max_distance = 256
  /\ n2 = 3
  /\ \E q \in 0..(i - 1) : D1(q) = 4 /\ D2(q) = 5 /\ ~Emitted(q)
  /\ \E q \in 0..(i - 1) : Emitted(q) /\ D1(q) = 0 /\ D2(q) = 1 /\ FirstBest(q) = 1

\* C17: the matches written have strictly increasing idx1, they are the first
\* max_matches acceptable set-1 keypoints in order, the count returned is at
\* most min(n1, max_matches) and no cell at index >= max_matches is written.
C17_MatchesInOrder ==
  InMatch =>
    /\ \A j, k \in Written : j < k => matches[j].idx1 < matches[k].idx1
    /\ n_out <= GS_MIN(n1, max_matches)
    /\ \A k \in max_matches..MaxMatches : matches[k] = StaleMatch
    /\ pc = "mdone" =>
         LET accepted == {q \in 0..(n1 - 1) : Acceptable(q)}
             written == {matches[k].idx1 : k \in Written}
         IN /\ ret = n_out
            /\ written \subseteq accepted
            /\ Cardinality(written) = GS_MIN(Cardinality(accepted), max_matches)
            /\ \A x \in written, y \in accepted \ written : x < y

\* More acceptable keypoints than the buffer holds.
C17_Witness ==
  /\ pc = "mdone"
  /\ max_matches = 1
  /\ ret = 1
  /\ matches[0].idx1 = 0
  /\ Cardinality({q \in 0..(n1 - 1) : Acceptable(q)}) = 2

SelfMatch ==
  /\ pc = "mdone"
  /\ kps1 = kps2
  /\ max_matches >= n1
  /\ max_distance >= 256
PerfectSelfMatch ==
  /\ ret = n1
  /\ \A k \in 0..(n1 - 1) : matches[k] = gs_match(k, k, 0)

\* C19 (as stated): matching any keypoint set against itself, with room for
\* every match and max_distance >= 256, returns the match (i, i, 0) for every i.
C19_SelfMatch ==
  SelfMatch => PerfectSelfMatch

\* C19 (amended): the same, for keypoint sets whose descriptors are pairwise
\* different.
C19_SelfMatchDistinct ==
  (SelfMatch /\ \A j, k \in 0..(n1 - 1) : j # k => kps1[j].descriptor # kps1[k].descriptor)
    => PerfectSelfMatch

\* A set of two keypoints one bit apart matched against itself.
C19_Witness ==
  /\ SelfMatch
  /\ n1 = 2
  /\ DifferingBits(kps1[0].descriptor, kps1[1].descriptor) = 1
  /\ ret = 2

\* --------------------------------------------------------- gs_fast: properties
InteriorPixels == Interior(w, h)
\* The 16 ring samples around the cell pos, by ring index.
RingOf(pos) ==
  [k \in 0..15 |-> img[((pos \div w) + fast_dy[k + 1]) * w + ((pos % w) + fast_dx[k + 1])]]
\* Some 9 circularly contiguous ring samples are all above centre + threshold
\* or all below centre - threshold, as integers.
HasRun(pos) ==
  LET r == RingOf(pos)
  IN \E s \in 0..15 :
        \/ \A t \in 0..8 : r[(s + t) % 16] > img[pos] + threshold
        \/ \A t \in 0..8 : r[(s + t) % 16] < img[pos] - threshold
ExpectedScore(pos) ==
  IF HasRun(pos)
  THEN LET r == RingOf(pos) IN MinOf({Abs(r[k] - img[pos]) : k \in 0..15})
  ELSE 0
FastScored == pc \in {"fnms", "fdone"}

\* C14: the score stored for an interior pixel is the smallest |sample - centre|
\* over the ring when 9 contiguous ring samples are all greater than
\* centre + threshold or all less than centre - threshold (as integers), and 0
\* otherwise; a pixel without such a run is not among the keypoints.
C14_FastScore ==
  FastScored =>
    /\ \A pos \in InteriorPixels : scoremap[pos] = ExpectedScore(pos)
    /\ pc = "fdone" =>
         \A k \in 0..(ret - 1) : HasRun(kps[k].pt.y * w + kps[k].pt.x)

\* The interior pixels that survive non-maximum suppression.
Survivors ==
  {pos \in InteriorPixels :
     /\ scoremap[pos] # 0
     /\ \A q \in Neighbours8(pos) : scoremap[q] <= scoremap[pos]}
\* The k-th cell of S in raster order, k counted from 0.
KthOf(S, k) == CHOOSE e \in S : Cardinality({f \in S : f < e}) = k

\* C15: gs_fast returns min(S, nkps) for S surviving pixels, the keypoints are
\* the first survivors in raster order with their scores, and no buffer cell
\* beyond them, in particular none at index >= nkps, is written.
C15_FirstSurvivors ==
  pc = "fdone" =>
    /\ ret = GS_MIN(Cardinality(Survivors), nkps)
    /\ \A k \in 0..(ret - 1) :
          LET pos == KthOf(Survivors, k)
          IN kps[k] = gs_keypoint(PointOf(pos), scoremap[pos], 0, zero_descriptor)
    /\ \A k \in ret..MaxKps : kps[k] = StaleKeypoint

\* Two surviving pixels and room for one keypoint.
C15_Witness ==
  /\ pc = "fdone"
  /\ nkps = 1
  /\ Cardinality(Survivors) = 2
  /\ ret = 1
  /\ kps[0].pt = gs_point(3, 3)

\* The cells of the score map outside the interior, which gs_fast never writes.
Margin == Pixels \ InteriorPixels
ZeroCleared == \A pos \in Margin : scoremap[pos] = 0
\* The cells gs_fast reported.
Reported == {kps[k].pt.y * w + kps[k].pt.x : k \in 0..(ret - 1)}

\* C23: with a zero-cleared score map an interior pixel is reported iff its
\* score is non-zero and no one of its 8 neighbours has a greater score,
\* whatever the capacity; two adjacent pixels of equal maximal score are both
\* reported.
C23_ReportedIffLocalMax ==
  (pc = "fdone" /\ ZeroCleared) => Reported = Survivors

\* C23 where the capacity allows: with a zero-cleared score map an interior
\* pixel is reported iff it is such a local maximum and fewer than nkps such
\* pixels come before it in raster order.
C23_ReportedIffLocalMaxInCapacity ==
  (pc = "fdone" /\ ZeroCleared) =>
    Reported = {pos \in Survivors : Cardinality({q \in Survivors : q < pos}) < nkps}

\* Two adjacent interior pixels with the same non-zero score, both reported.
C23_Witness ==
  /\ pc = "fdone"
  /\ ZeroCleared
  /\ InteriorPixels = {3 * w + 3, 3 * w + 4}
  /\ scoremap[3 * w + 3] # 0
  /\ scoremap[3 * w + 3] = scoremap[3 * w + 4]
  /\ Reported = {3 * w + 3, 3 * w + 4}

\* What gs_fast returns for the same image, threshold and capacity when the
\* score map is zero-cleared before the call.
CleanRun ==
  NmsFrom([kps |-> [k \in 0..MaxKps |-> StaleKeypoint], n |-> 0],
          ScoreFrom([pos \in Pixels |-> 0], img, w, h, threshold, 3, 3),
          w, h, nkps, 3, 3)

\* C27: the keypoints returned do not depend on what the score map held before
\* the call: they are those of the call with a zero-cleared score map.
C27_ScoremapIndependent ==
  pc = "fdone" =>
    LET a == CleanRun
    IN /\ ret = a.n
       /\ \A k \in 0..(ret - 1) : kps[k] = a.kps[k]

\* C28: gs_fast indexes only cells inside the image and the score map, and with
\* a width or height of at most 6 it returns 0 keypoints.
C28_SmallImagesSafe ==
  /\ pc # "ffault"
  /\ (pc = "fdone" /\ (w <= 6 \/ h <= 6)) => ret = 0

\* ------------------------------------------ gs_blobs label counter: properties
\* C29: the 16-bit label counter never wraps around: every label written to
\* the grid is in 1..nblobs and every index used on blobs, cx, cy and parents
\* is inside the arrays, for every nblobs > 0.
C29_CounterNeverWraps ==
  /\ pc # "lfault"
  /\ pc \in {"lscan", "ldone"} =>
       /\ \A pos \in 0..(w - 1) : labels[pos] \in 0..nblobs
       /\ next \in 1..(nblobs + 1)

\* ----------------------------------------------- WASM image slots: properties
\* The slots that have a buffer and the heap bytes w*h of a slot's image.
Allocated == {k \in 0..(NUM_BUFFERS - 1) : images[k].data # NULL}
BytesOf(k) == images[k].data .. (images[k].data + images[k].w * images[k].h - 1)

\* C30: after any sequence of gs_init_image and gs_reset_allocator calls every
\* slot with a non-NULL data pointer has its w*h bytes inside the heap, and the
\* bytes of different slots do not overlap.
C30_SlotsOwnBuffers ==
  pc = "wasm" =>
    /\ \A k \in Allocated :
          images[k].data >= 0 /\ images[k].data + images[k].w * images[k].h <= MEMORY_HEAP_SIZE
    /\ \A k \in Allocated, j \in Allocated :
          k # j =>
            \/ images[k].data + images[k].w * images[k].h <= images[j].data
            \/ images[j].data + images[j].w * images[j].h <= images[k].data

\* --------------------------------------- extract_pyramid_orb_nm: properties
\* The 2x2 box average of an image at half its width and height.
BoxAverage(im) ==
  [pos \in 0..((im.w \div 2) * (im.h \div 2) - 1) |->
     LET x == pos % (im.w \div 2)
         y == pos \div (im.w \div 2)
     IN (im.data[2 * y * im.w + 2 * x] + im.data[2 * y * im.w + 2 * x + 1]
         + im.data[(2 * y + 1) * im.w + 2 * x] + im.data[(2 * y + 1) * im.w + 2 * x + 1]) \div 4]

\* The number of levels of a ww-by-hh image when asked is asked for: at most 4,
\* and a further level only while both halved dimensions are at least 32.
RECURSIVE LevelsOf(_, _, _)
LevelsOf(ww, hh, asked) ==
  IF asked <= 1 THEN asked
  ELSE IF ww \div 2 < 32 \/ hh \div 2 < 32 THEN 1
  ELSE 1 + LevelsOf(ww \div 2, hh \div 2, asked - 1)
Levels == LevelsOf(w, h, GS_MIN(n_levels, 4))
PyramidEnded == pc \in {"pdone", "pabort"}

\* C24: every level L >= 1 is the 2x2 box average of level L-1 at half its
\* width and height, level L-1 is left unchanged, the call of gs_downsample
\* meets its asserted precondition so that nothing aborts, and a level is
\* built only when both of its dimensions are at least 32.
C24_LevelsAreDownsampled ==
  /\ pc # "pabort"
  /\ pc \in {"pextract", "pdone"} =>
       /\ pyramid[0] = gs_image(w, h, img)
       /\ \A L \in DOMAIN pyramid \ {0} :
             /\ pyramid[L].w = pyramid[L - 1].w \div 2
             /\ pyramid[L].h = pyramid[L - 1].h \div 2
             /\ pyramid[L].w >= 32 /\ pyramid[L].h >= 32
             /\ pyramid[L].data = BoxAverage(pyramid[L - 1])

\* C25: when the extraction over n levels ends, every level but the last was
\* given the capacity nkps div n and the last nkps div n + nkps mod n, at most
\* nkps keypoints are returned, and the keypoints of level L have their
\* coordinates multiplied by 2^L.
C25_CapacitySplit ==
  (PyramidEnded /\ Levels > 0) =>
    /\ DOMAIN level_nkps = 0..(Levels - 1)
    /\ \A L \in 0..(Levels - 2) : level_nkps[L] = nkps \div Levels
    /\ level_nkps[Levels - 1] = (nkps \div Levels) + (nkps % Levels)
    /\ total_kps <= nkps
    /\ \A k \in 0..(total_kps - 1) :
          \E L \in 0..(Levels - 1) :
             /\ kps[k].pt.x % ShiftLeftOne(L) = 0
             /\ kps[k].pt.y % ShiftLeftOne(L) = 0
             /\ kps[k].pt.x \div ShiftLeftOne(L) < pyramid[L].w
             /\ kps[k].pt.y \div ShiftLeftOne(L) < pyramid[L].h

\* --------------------------------------------- gs_otsu_threshold: properties
\* Pixels at or below t, above t, and the sums of their values.
RECURSIVE SumValues(_)
SumValues(S) ==
  IF S = {} THEN 0 ELSE LET e == CHOOSE e \in S : TRUE IN img[e] + SumValues(S \ {e})
Below(t) == {pos \in Pixels : img[pos] <= t}
Above(t) == {pos \in Pixels : img[pos] > t}
\* The between-class variance wb * wf * (mB - mF)^2 of the split at t is
\* VarNum(t)^2 / VarDen(t): numerators and denominators are compared exactly.
VarNum(t) ==
  SumValues(Below(t)) * Cardinality(Above(t)) - SumValues(Above(t)) * Cardinality(Below(t))
VarDen(t) == Cardinality(Below(t)) * Cardinality(Above(t))
Splits == {t \in 0..255 : Below(t) # {} /\ Above(t) # {}}
VarGreater(t, u) == VarNum(t) * VarNum(t) * VarDen(u) > VarNum(u) * VarNum(u) * VarDen(t)
BestSplit ==
  CHOOSE t \in Splits :
    /\ \A u \in Splits : ~VarGreater(u, t)
    /\ \A u \in Splits : u < t => VarGreater(t, u)

\* C22: gs_otsu_threshold returns the smallest grey level that maximises the
\* between-class variance of the split into pixels <= t and pixels > t, 0 for
\* an image of a single grey level, and 60 for the 3x3 test image.
C22_OtsuIsSmallestMaximiser ==
  pc = "odone" =>
    /\ Splits = {} => ret = 0
    /\ Splits # {} => ret = BestSplit
    /\ img = OtsuSample => ret = 60

\* ------------------------------------ gs_perspective_correct: properties
\* C21: with the identity quad over the full source, gs_perspective_correct
\* leaves in dst the pixels gs_resize leaves for the same source and size.
C21_IdentityQuadIsResize ==
  pc = "corrected" => dst.data = gs_resize(dst, gs_image(w, h, img))

====
